---- MODULE Spec2Model ----
(***************************************************************************)
(* NoCpad AXI test bench: the master-side traffic generator / scoreboard   *)
(* (tb/tb_axi_con/axi_master.h) and the AXI write slave port               *)
(* (src/include/axi_for_ace.h), as state machines.                         *)
(*                                                                         *)
(* The specifications of the module share its variables:                   *)
(*   Spec       the masters' generate / verify operations on the shared    *)
(*              scoreboard, with sb_lock and each thread's position;       *)
(*   SpecFair   Spec under the scheduler's fairness;                       *)
(*   SpecPred   the generator's pure arithmetic (request draw, slave-side  *)
(*              resize, expected-beat walks) over every lane configuration *)
(*              and every draw;                                            *)
(*   SpecWalk   the beat walks over requests drawn directly;               *)
(*   SpecSlave  write::slave::nb_wread over its AW and W channels;         *)
(*   SpecSlaveAll  write::slave with reset() and wread() as well;          *)
(*   SpecMap    mem_map_resolve over drawn address maps;                   *)
(*   SpecPayload  the payload constructors over drawn configurations;      *)
(*   SpecMaster the blocking master ports;                                 *)
(*   SpecInj    the injection part of do_cycle;                            *)
(*   SpecLive   SpecInj with stop_gen and the scheduling of do_cycle;      *)
(*   SpecCount  SpecInj with verify_rd_resp of the same master;            *)
(*   SpecDelay  the verifiers with the clock.                              *)
(***************************************************************************)
EXTENDS Integers, Sequences, FiniteSets, TLC

(***************************************************************************)
(* Program constants                                                       *)
(***************************************************************************)
AXI_TID_NUM == 4
AXI_BURST_NUM == 3
AXI4_MAX_LEN == 4
AXI4_MAX_INCR_LEN == 4

\* enc_::AXBURST encodings
FIXED == 0
INCR == 1
WRAP == 2

\* Data is DATA_BYTES byte lanes wide; a lane at or above it is shifted out.
DATA_BYTES == 8
\* dnp::ID_W, the width of the tag compared by eq_rd_data / eq_wr_resp
ID_W == 4
\* the second address region of the generator
ADDR_OFFSET == 65536

(***************************************************************************)
(* Bounds of the model                                                     *)
(***************************************************************************)
\* rand() returns a value of 0..MaxRand in Spec
MaxRand == 1
\* rand() returns a value of 0..MaxPredRand in SpecPred
MaxPredRand == 3
\* transactions generated by all masters together in Spec
MaxGen == 2
\* the running address counter of SpecPred is 0..MaxAddrK master beats
MaxAddrK == 1
\* payloads the environment puts on each of AW and W in SpecSlave
MaxMsgs == 3
\* addresses and region ends of SpecMap are 0..MaxMapAddr
MaxMapAddr == 3
\* calls of the blocking master operations in one run
MaxCalls == 3
\* messages a channel holds before a push has to wait or fails
ChanCap == 1
\* request addresses 0..MaxWalkAddr in SpecWalk
MaxWalkAddr == 5
\* clock cycles of a run of SpecDelay
MaxCycles == 3
\* reset() calls of the write slave in SpecSlaveAll
MaxResets == 2

(***************************************************************************)
(* Arithmetic helpers                                                      *)
(***************************************************************************)
Pow2(k) == 2 ^ k

\* my_log2c: the ceiling of log2
RECURSIVE Log2cFrom(_, _)
Log2cFrom(n, k) == IF Pow2(k) >= n THEN k ELSE Log2cFrom(n, k + 1)
my_log2c(n) == Log2cFrom(n, 0)

\* bitwise OR of two bytes
RECURSIVE BitOr(_, _)
BitOr(a, b) ==
  IF a = 0 THEN b
  ELSE IF b = 0 THEN a
  ELSE (IF (a % 2 = 1) \/ (b % 2 = 1) THEN 1 ELSE 0) + 2 * BitOr(a \div 2, b \div 2)

\* a Data or strobe value of all zero
ZeroData == [l \in 1..DATA_BYTES |-> 0]

\* data |= byte << (ptr*8): lanes are held 1-based, lane ptr is element ptr+1
OrByte(data, ptr, byte) ==
  IF ptr < DATA_BYTES THEN [data EXCEPT ![ptr + 1] = BitOr(@, byte % 256)] ELSE data

\* wstrb |= 1 << ptr
OrStrb(strb, ptr) ==
  IF ptr < DATA_BYTES THEN [strb EXCEPT ![ptr + 1] = 1] ELSE strb

(***************************************************************************)
(* Address map: addr_map[i] = <<low, high>>, slave i is element i+1        *)
(***************************************************************************)
NotFound == -1

AddrMap == << <<0, ADDR_OFFSET - 1>>, <<ADDR_OFFSET, 2 * ADDR_OFFSET - 1>> >>
SLAVE_NUM == Len(AddrMap)
Slaves == 0..(SLAVE_NUM - 1)

RECURSIVE ResolveFromExclusive(_, _, _)
ResolveFromExclusive(map, addr, i) ==
  IF i >= Len(map) THEN NotFound
  ELSE IF addr >= map[i + 1][1] /\ addr < map[i + 1][2] THEN i
  ELSE ResolveFromExclusive(map, addr, i + 1)

RECURSIVE ResolveFrom(_, _, _)
ResolveFrom(map, addr, i) ==
  IF i >= Len(map) THEN NotFound
  ELSE IF addr >= map[i + 1][1] /\ addr <= map[i + 1][2] THEN i
  ELSE ResolveFrom(map, addr, i + 1)

\* the first region holding addr, NotFound where the code asserts
mem_map_resolve(addr) == ResolveFrom(AddrMap, addr, 0)

(***************************************************************************)
(* Generator: the request draw.  Each r* is the value of one rand() call.  *)
(* The draw of line 241/330 is a dead store (addr is overwritten by the    *)
(* next statement) and has no effect.                                      *)
(***************************************************************************)
\* x % n on unsigned operands.  With n = 0 the operation is undefined: the
\* run traps there (SizeDrawTraps, LenDrawTraps below) or goes on with some
\* value z.
ModU(x, n, z) == IF n = 0 THEN z ELSE x % n

\* the modulus of the size draw and of the INCR len draw
SizeDrawMod(M) == my_log2c(M)
IncrLenMod(M, S) ==
  IF M > S THEN AXI4_MAX_INCR_LEN \div (M \div S) ELSE AXI4_MAX_INCR_LEN

SizeDrawTraps(M) == SizeDrawMod(M) = 0
LenDrawTraps(M, S, burst) == burst = INCR /\ IncrLenMod(M, S) = 0

GenSize(M, r, z) == (ModU(r, SizeDrawMod(M), z) + 1) % Pow2(my_log2c(M))

GenLen(M, S, burst, r, z) ==
  IF burst = WRAP THEN Pow2(r % my_log2c(AXI4_MAX_LEN + 1)) - 1
  ELSE IF burst = FIXED THEN r % AXI4_MAX_LEN
  ELSE ModU(r, IncrLenMod(M, S), z)

GenAddrNextLane(gen_addr, r) == IF r % 2 # 0 THEN gen_addr ELSE gen_addr + 1

GenAddr(gen_addr, r) == IF r % 2 # 0 THEN gen_addr ELSE gen_addr + ADDR_OFFSET

\* zsize, zlen: what a zero-modulus draw yields when the run goes on
GenReq(M, S, gen_addr, rid, rsize, rburst, rlen, rsel, zsize, zlen) ==
  [id    |-> rid % AXI_TID_NUM,
   size  |-> GenSize(M, rsize, zsize),
   burst |-> rburst % AXI_BURST_NUM,
   len   |-> GenLen(M, S, rburst % AXI_BURST_NUM, rlen, zlen),
   addr  |-> GenAddr(gen_addr, rsel)]

(***************************************************************************)
(* Generator: the slave-side equivalent of a request                       *)
(***************************************************************************)
\* gen_new_rd_trans, rd_req_s
RdSlaveSize(req, S) ==
  IF Pow2(req.size) > S THEN my_log2c(S) ELSE req.size

RdSlaveLenNoShift(req, S) == req.len

RdSlaveLen(req, S) ==
  IF Pow2(req.size) > S
    THEN ((req.len + 1) * Pow2(req.size - my_log2c(S))) - 1
    ELSE req.len

RdSlaveReq(req, S) ==
  [id    |-> req.id,
   size  |-> RdSlaveSize(req, S),
   len   |-> RdSlaveLen(req, S),
   burst |-> req.burst,
   addr  |-> req.addr]

WrSlaveSizeKeep(req, S) == req.size

\* gen_new_wr_trans, s_size / s_len (unsigned char) and s_wr_req
WrSlaveSize(req, S) ==
  IF Pow2(req.size) > S THEN my_log2c(S) ELSE req.size

WrSlaveLen(req, S) ==
  IF Pow2(req.size) > S
    THEN (((req.len + 1) * Pow2(req.size - WrSlaveSize(req, S))) - 1) % 256
    ELSE req.len

WrSlaveReq(req, S) ==
  [id    |-> req.id,
   addr  |-> req.addr,
   size  |-> WrSlaveSize(req, S),
   len   |-> WrSlaveLen(req, S),
   burst |-> req.burst]

(***************************************************************************)
(* Expected-response predictor: the byte walk of gen_new_rd_trans.         *)
(* st.beats are the ReadPayloads pushed to sb_rd_resp_q[MASTER_ID];        *)
(* st.lanes lists, per pushed beat, the lanes in the order they were       *)
(* written (st.wrote: those of the beat being filled).                     *)
(***************************************************************************)
BytesTotalOneBeat(req) == Pow2(req.size)

\* bytes_total = (len+1) << size
BytesTotal(req) == (req.len + 1) * Pow2(req.size)

NextPtrIncr(burst, ptr, init_ptr, size, lanes) == ((ptr + 1) % lanes) % 256

\* the advance of a lane pointer (unsigned char) by one byte
NextPtrNoWrap(burst, ptr, init_ptr, size, lanes) ==
  IF burst = FIXED THEN ((ptr + 1) + init_ptr) % 256
  ELSE ((ptr + 1) % lanes) % 256

NextPtr(burst, ptr, init_ptr, size, lanes) ==
  IF burst = FIXED THEN (((ptr + 1) % Pow2(size)) + init_ptr) % 256
  ELSE ((ptr + 1) % lanes) % 256

BeatClosesEveryByte(ptr, size, byte_count, bytes_total) == TRUE

\* a beat is closed when the pointer is back on a size boundary or at the end
BeatCloses(ptr, size, byte_count, bytes_total) ==
  (ptr % Pow2(size) = 0) \/ (byte_count = bytes_total)

RdWalkInit(req, M) ==
  [byte_count |-> 0,
   m_ptr      |-> (req.addr % M) % 256,
   data       |-> ZeroData,
   beats      |-> << >>,
   wrote      |-> << >>,
   lanes      |-> << >>]

RdWalkStep(req, M, resp, st) ==
  LET data1  == OrByte(st.data, st.m_ptr, st.byte_count)
      count1 == st.byte_count + 1
      ptr1   == NextPtr(req.burst, st.m_ptr, (req.addr % M) % 256, req.size, M)
      wrote1 == Append(st.wrote, st.m_ptr)
  IN IF BeatCloses(ptr1, req.size, count1, BytesTotal(req))
       THEN [byte_count |-> count1,
             m_ptr      |-> ptr1,
             data       |-> ZeroData,
             beats      |-> Append(st.beats,
                                   [id   |-> req.id,
                                    data |-> data1,
                                    resp |-> resp,
                                    last |-> (count1 = BytesTotal(req))]),
             wrote      |-> << >>,
             lanes      |-> Append(st.lanes, wrote1)]
       ELSE [st EXCEPT !.byte_count = count1,
                       !.m_ptr = ptr1,
                       !.data = data1,
                       !.wrote = wrote1]

RECURSIVE RdWalkLoop(_, _, _, _)
RdWalkLoop(req, M, resp, st) ==
  IF st.byte_count < BytesTotal(req)
    THEN RdWalkLoop(req, M, resp, RdWalkStep(req, M, resp, st))
    ELSE st

RdWalk(req, M, resp) == RdWalkLoop(req, M, resp, RdWalkInit(req, M))

(***************************************************************************)
(* The byte walk of gen_new_wr_trans: master-side beats (m_beats, pushed   *)
(* to stored_wr_data) and slave-side beats (s_beats, pushed to             *)
(* sb_wr_data_q[dst]) filled in the same loop.                             *)
(***************************************************************************)
ByteToWriteNoTag(byte_count, bytes_total, master_id) == byte_count % 256

\* MASTER_ID is an int: as unsigned, & 0xFF keeps its low byte
ByteToWrite(byte_count, bytes_total, master_id) ==
  IF byte_count = bytes_total - 1 THEN master_id % 256 ELSE byte_count % 256

WrWalkInit(req, M, S) ==
  [byte_count |-> 0,
   m_ptr      |-> (req.addr % M) % 256,
   s_ptr      |-> (req.addr % S) % 256,
   cur_beat      |-> [data |-> ZeroData, last |-> FALSE, wstrb |-> ZeroData],
   beat_at_slave |-> [data |-> ZeroData, last |-> FALSE, wstrb |-> ZeroData],
   m_beats    |-> << >>,
   s_beats    |-> << >>,
   m_wrote    |-> << >>,
   s_wrote    |-> << >>,
   m_lanes    |-> << >>,
   s_lanes    |-> << >>]

WrWalkStep(req, M, S, master_id, st) ==
  LET total   == BytesTotal(req)
      s_size  == WrSlaveSize(req, S)
      byte    == ByteToWrite(st.byte_count, total, master_id)
      cur1    == [st.cur_beat EXCEPT !.data = OrByte(@, st.m_ptr, byte),
                                     !.wstrb = OrStrb(@, st.m_ptr)]
      slv1    == [st.beat_at_slave EXCEPT !.data = OrByte(@, st.s_ptr, byte),
                                          !.wstrb = OrStrb(@, st.s_ptr)]
      count1  == st.byte_count + 1
      m_ptr1  == NextPtr(req.burst, st.m_ptr, (req.addr % M) % 256, req.size, M)
      s_ptr1  == NextPtr(req.burst, st.s_ptr, (req.addr % S) % 256, s_size, S)
      m_close == BeatCloses(m_ptr1, req.size, count1, total)
      s_close == BeatCloses(s_ptr1, s_size, count1, total)
      m_wr1   == Append(st.m_wrote, st.m_ptr)
      s_wr1   == Append(st.s_wrote, st.s_ptr)
  IN [byte_count |-> count1,
      m_ptr      |-> m_ptr1,
      s_ptr      |-> s_ptr1,
      cur_beat   |-> IF m_close
                       THEN [data |-> ZeroData, last |-> (count1 = total), wstrb |-> ZeroData]
                       ELSE cur1,
      beat_at_slave |-> IF s_close
                       THEN [data |-> ZeroData, last |-> (count1 = total), wstrb |-> ZeroData]
                       ELSE slv1,
      m_beats    |-> IF m_close
                       THEN Append(st.m_beats, [cur1 EXCEPT !.last = (count1 = total)])
                       ELSE st.m_beats,
      s_beats    |-> IF s_close
                       THEN Append(st.s_beats, [slv1 EXCEPT !.last = (count1 = total)])
                       ELSE st.s_beats,
      m_wrote    |-> IF m_close THEN << >> ELSE m_wr1,
      s_wrote    |-> IF s_close THEN << >> ELSE s_wr1,
      m_lanes    |-> IF m_close THEN Append(st.m_lanes, m_wr1) ELSE st.m_lanes,
      s_lanes    |-> IF s_close THEN Append(st.s_lanes, s_wr1) ELSE st.s_lanes]

RECURSIVE WrWalkLoop(_, _, _, _, _)
WrWalkLoop(req, M, S, master_id, st) ==
  IF st.byte_count < BytesTotal(req)
    THEN WrWalkLoop(req, M, S, master_id, WrWalkStep(req, M, S, master_id, st))
    ELSE st

WrWalk(req, M, S, master_id) == WrWalkLoop(req, M, S, master_id, WrWalkInit(req, M, S))

(***************************************************************************)
(* State                                                                   *)
(***************************************************************************)
VARIABLES
  \* --- Spec: the masters and the shared scoreboard ---
  pc,               \* each master thread's position
  sb_lock,          \* the owner of *sb_lock, or NoOwner
  sb_rd_req_q,      \* per destination: expected read requests
  sb_rd_resp_q,     \* per master: expected read beats
  sb_wr_req_q,      \* per destination: expected write requests
  sb_wr_data_q,     \* per destination: expected write beats
  sb_wr_resp_q,     \* per master: expected write responses
  sb_rd_order_q,    \* per master: read requests, for the reorder check
  sb_wr_order_q,    \* per master: write requests, for the reorder check
  stored_rd_trans,  \* per master: injection queues
  stored_wr_trans,
  stored_wr_data,
  cnt,              \* per master: its counters, by the source's names
  loc,              \* per master: the locals of the call in progress
  halted,           \* the simulation was ended by a fatal outcome
  gen_left,         \* transactions the masters may still generate
  \* --- SpecPred: one generation with every input drawn ---
  pred,
  \* --- SpecSlave: the write slave port ---
  aw_chan,          \* payloads waiting on AW
  w_chan,           \* payloads waiting on W
  got_waddr,
  stored_waddr,
  nb,               \* the last nb_wread call: its result and what it popped
  hist,             \* everything nb_wread popped from AW and W, and every pair
                    \* it returned
  \* --- SpecMap: mem_map_resolve over drawn address maps ---
  map_call,
  \* --- SpecPayload: the payload constructors over drawn configurations ---
  pay,
  \* --- SpecMaster: the blocking master ports and their channels ---
  mst,
  \* --- SpecInj: the injection part of do_cycle ---
  ar_out,           \* payloads pushed on AR and not yet taken by the fabric
  aw_out,
  w_out,
  inj,              \* the injected counters, the element a failed push offered
                    \* and everything pushed so far
  \* --- SpecDelay: the verifiers with the clock ---
  vfy,
  \* --- SpecSlaveAll: the blocking wread call in progress ---
  blk,
  \* --- SpecLive: the stop_gen input of the master ---
  stop_gen

sbVars == <<pc, sb_lock, sb_rd_req_q, sb_rd_resp_q, sb_wr_req_q, sb_wr_data_q,
            sb_wr_resp_q, sb_rd_order_q, sb_wr_order_q, stored_rd_trans,
            stored_wr_trans, stored_wr_data, cnt, loc, halted, gen_left>>
slaveVars == <<aw_chan, w_chan, got_waddr, stored_waddr, nb, hist>>
portVars == <<map_call, pay, mst, ar_out, aw_out, w_out, inj, vfy, blk, stop_gen>>
vars == <<sbVars, pred, slaveVars, portVars>>

(***************************************************************************)
(* SpecPred: the lane configurations <<master lanes, slave lanes>> and     *)
(* the draws of one generation                                             *)
(***************************************************************************)
LaneCfgs == { <<1, 1>>, <<2, 1>>, <<2, 2>>, <<2, 4>>, <<4, 1>>, <<4, 2>>, <<4, 4>>,
              <<8, 1>>, <<8, 2>>, <<8, 4>>, <<8, 8>> }
PredMasterIds == {0, 1}
PredRand == 0..MaxPredRand

PredIdle == [phase |-> "off"]

PredInputs ==
  { [phase |-> "in", M |-> c[1], S |-> c[2], MASTER_ID |-> mid,
     gen_addr |-> k * c[1],
     rid |-> r[1], rsize |-> r[2], rburst |-> r[3], rlen |-> r[4], rsel |-> r[5]] :
       c \in LaneCfgs, mid \in PredMasterIds, k \in 0..MaxAddrK,
       r \in PredRand \X PredRand \X PredRand \X PredRand \X (0..1) }

PredReq(p, zsize, zlen) ==
  GenReq(p.M, p.S, p.gen_addr, p.rid, p.rsize, p.rburst, p.rlen, p.rsel, zsize, zlen)

\* the values a zero-modulus draw can go on with: one value when the draw
\* is defined (it is not used), any value when it is not
ZVals(undefined) == IF undefined THEN PredRand ELSE {0}

\* gen_new_rd_trans on the drawn inputs
PredictRd ==
  /\ pred.phase = "in"
  /\ \E zsize \in ZVals(SizeDrawTraps(pred.M)),
        zlen \in ZVals(LenDrawTraps(pred.M, pred.S, pred.rburst % AXI_BURST_NUM)) :
       LET req == PredReq(pred, zsize, zlen)
       IN pred' = [phase |-> "rd", M |-> pred.M, S |-> pred.S,
                   MASTER_ID |-> pred.MASTER_ID,
                   req   |-> req,
                   s_req |-> RdSlaveReq(req, pred.S),
                   walk  |-> RdWalk(req, pred.M, mem_map_resolve(req.addr))]
  /\ UNCHANGED <<sbVars, slaveVars, portVars>>

\* gen_new_wr_trans on the drawn inputs
PredictWr ==
  /\ pred.phase = "in"
  /\ \E zsize \in ZVals(SizeDrawTraps(pred.M)),
        zlen \in ZVals(LenDrawTraps(pred.M, pred.S, pred.rburst % AXI_BURST_NUM)) :
       LET req == PredReq(pred, zsize, zlen)
       IN pred' = [phase |-> "wr", M |-> pred.M, S |-> pred.S,
                   MASTER_ID |-> pred.MASTER_ID,
                   req   |-> req,
                   s_req |-> WrSlaveReq(req, pred.S),
                   walk  |-> WrWalk(req, pred.M, pred.S, pred.MASTER_ID)]
  /\ UNCHANGED <<sbVars, slaveVars, portVars>>

\* either generator on inputs whose size draw (line 233 / 321) or INCR len
\* draw (line 237 / 325) has a zero modulus, in a run that traps on it
PredictTrap ==
  /\ pred.phase = "in"
  /\ \/ /\ SizeDrawTraps(pred.M)
        /\ pred' = [phase |-> "trap", M |-> pred.M, S |-> pred.S, at |-> "size"]
     \/ /\ ~SizeDrawTraps(pred.M)
        /\ LenDrawTraps(pred.M, pred.S, pred.rburst % AXI_BURST_NUM)
        /\ pred' = [phase |-> "trap", M |-> pred.M, S |-> pred.S, at |-> "len"]
  /\ UNCHANGED <<sbVars, slaveVars, portVars>>

NextPred == PredictRd \/ PredictWr \/ PredictTrap

(***************************************************************************)
(* Spec: configuration of the instantiated test bench                      *)
(***************************************************************************)
MASTER_NUM == 2
RD_M_LANES == 2
RD_S_LANES == 1
WR_M_LANES == 2
WR_S_LANES == 1

Masters == 0..(MASTER_NUM - 1)
NoOwner == -1

\* the per-master generation rates (percent of ticks) set by the test bench:
\* master 0 issues reads and writes, the others only writes
GEN_RATE_RD == [m \in Masters |-> IF m = 0 THEN 50 ELSE 0]
GEN_RATE_WR == [m \in Masters |-> 50]
RandVals == 0..MaxRand

NoReq == [id |-> 0, size |-> 0, burst |-> 0, len |-> 0, addr |-> 0]
NoRdResp == [id |-> 0, data |-> ZeroData, resp |-> 0, last |-> FALSE]

LocIdle ==
  [req        |-> NoReq,      \* rd_req_m / m_wr_req
   rcv        |-> NoRdResp,   \* rcv_rd_resp / rcv_wr_resp
   rcv_tx     |-> 0,          \* the transaction the presented response answers (0: none)
   sb_ord_req |-> NoReq,
   reorder    |-> 2,
   found      |-> FALSE,
   outcome    |-> "none",     \* ok, not_found, req_not_found, reordered, no_region
   exit       |-> "none"]     \* return, assert, crash

CntInit ==
  [rd_trans_generated |-> 0, rd_data_generated |-> 0,
   wr_trans_generated |-> 0, wr_data_generated |-> 0,
   gen_rd_addr |-> 0, gen_wr_addr |-> 0,
   rd_resp_ej |-> 0, wr_resp_ej |-> 0,
   error_sb_rd_resp_not_found |-> 0, error_sb_wr_resp_not_found |-> 0,
   rd_resp_count |-> 0, wr_resp_count |-> 0,
   rd_resp_data_count |-> 0, wr_resp_data_count |-> 0]

\* a transaction's number in its master's generation order, from its address:
\* the running counter starts at 0 and advances by the lane count per call
TxOfAddr(addr, lanes) == ((addr % ADDR_OFFSET) \div lanes) + 1

\* the scoreboard wrapper msg_tb_wrap: the message, and who generated it when
Wrap(msg, m, tx) == [dut_msg |-> msg, src |-> m, tx |-> tx]

RECURSIVE WrapAll(_, _, _)
WrapAll(msgs, m, tx) ==
  IF msgs = << >> THEN << >>
  ELSE <<Wrap(Head(msgs), m, tx)>> \o WrapAll(Tail(msgs), m, tx)

\* deque::erase(begin()+j), j 0-based
EraseAllFrom(q, j) == SubSeq(q, 1, j)

Erase(q, j) == SubSeq(q, 1, j) \o SubSeq(q, j + 2, Len(q))

(***************************************************************************)
(* sb_lock: sc_mutex::lock() returns once the mutex is free                *)
(***************************************************************************)
LockNoWait(m) == sb_lock' = m

Lock(m) == sb_lock = NoOwner /\ sb_lock' = m

UnlockKeep(m) == sb_lock' = sb_lock

Unlock(m) == sb_lock' = NoOwner

InitSb ==
  /\ pc = [m \in Masters |-> "idle"]
  /\ sb_lock = NoOwner
  /\ sb_rd_req_q = [d \in Slaves |-> << >>]
  /\ sb_rd_resp_q = [m \in Masters |-> << >>]
  /\ sb_wr_req_q = [d \in Slaves |-> << >>]
  /\ sb_wr_data_q = [d \in Slaves |-> << >>]
  /\ sb_wr_resp_q = [m \in Masters |-> << >>]
  /\ sb_rd_order_q = [m \in Masters |-> << >>]
  /\ sb_wr_order_q = [m \in Masters |-> << >>]
  /\ stored_rd_trans = [m \in Masters |-> << >>]
  /\ stored_wr_trans = [m \in Masters |-> << >>]
  /\ stored_wr_data = [m \in Masters |-> << >>]
  /\ cnt = [m \in Masters |-> CntInit]
  /\ loc = [m \in Masters |-> LocIdle]
  /\ halted = FALSE

InitSlave ==
  /\ aw_chan = << >>
  /\ w_chan = << >>
  /\ got_waddr = FALSE
  /\ stored_waddr = 0
  /\ nb = [tick |-> 0, ret |-> FALSE, addr |-> 0, data |-> 0,
           popped_aw |-> FALSE, popped_w |-> FALSE]
  /\ hist = [aw_sent |-> 0, w_sent |-> 0,
             aw_popped |-> << >>, w_popped |-> << >>, returned |-> << >>]

\* the variables of the other specifications, at rest
InitMap == map_call = [phase |-> "off"]
InitPay == pay = [phase |-> "off"]
InitMst == mst = [pc |-> "off"]
InitInj ==
  /\ ar_out = << >>
  /\ aw_out = << >>
  /\ w_out = << >>
  /\ inj = [rd_trans_inj |-> 0, wr_trans_inj |-> 0, wr_data_inj |-> 0,
            retry |-> [ar |-> << >>, aw |-> << >>, w |-> << >>],
            ar_pushed |-> << >>, aw_pushed |-> << >>, w_pushed |-> << >>]

\* SpecDelay has not started
InitVfy == vfy = [phase |-> "off"]
\* no wread call in progress, none returned, no reset() yet
InitBlk == blk = [at |-> "none", addr |-> 0, data |-> 0, calls |-> 0,
                  resets |-> 0, reset_got |-> FALSE]
InitStop == stop_gen = FALSE

(***************************************************************************)
(* gen_new_rd_trans                                                        *)
(***************************************************************************)
\* do_cycle lines 170-172 and gen_new_rd_trans lines 230-247: the draw, the
\* address counter and the injection queue
GenRdDraw(m) ==
  /\ ~halted /\ pc[m] = "idle" /\ gen_left > 0
  /\ GEN_RATE_RD[m] > 0          \* some rnd_val_rd = rand()%100 is below the rate
  /\ \E rid \in RandVals, rsize \in RandVals, rburst \in RandVals,
        rlen \in RandVals, rsel \in RandVals :
       LET req == GenReq(RD_M_LANES, RD_S_LANES, cnt[m].gen_rd_addr,
                         rid, rsize, rburst, rlen, rsel, 0, 0)
       IN /\ loc' = [loc EXCEPT ![m] = [LocIdle EXCEPT !.req = req]]
          /\ stored_rd_trans' = [stored_rd_trans EXCEPT ![m] = Append(@, req)]
  /\ cnt' = [cnt EXCEPT ![m].gen_rd_addr = @ + RD_M_LANES]
  /\ gen_left' = gen_left - 1
  /\ pc' = [pc EXCEPT ![m] = "rd_lock1"]
  /\ UNCHANGED <<sb_lock, sb_rd_req_q, sb_rd_resp_q, sb_wr_req_q, sb_wr_data_q,
                 sb_wr_resp_q, sb_rd_order_q, sb_wr_order_q, stored_wr_trans,
                 stored_wr_data, halted, pred, slaveVars, portVars>>

\* line 250
RdLock1(m) ==
  /\ ~halted /\ pc[m] = "rd_lock1"
  /\ Lock(m)
  /\ pc' = [pc EXCEPT ![m] = "rd_req"]
  /\ UNCHANGED <<sb_rd_req_q, sb_rd_resp_q, sb_wr_req_q, sb_wr_data_q,
                 sb_wr_resp_q, sb_rd_order_q, sb_wr_order_q, stored_rd_trans,
                 stored_wr_trans, stored_wr_data, cnt, loc, halted, gen_left,
                 pred, slaveVars, portVars>>

\* lines 251-265: the slave-side request goes to its destination's queue
RdPushReq(m) ==
  /\ ~halted /\ pc[m] = "rd_req"
  /\ LET rd_req_s == RdSlaveReq(loc[m].req, RD_S_LANES)
         dst == mem_map_resolve(rd_req_s.addr)
     IN IF dst = NotFound
          THEN /\ halted' = TRUE
               /\ loc' = [loc EXCEPT ![m].outcome = "no_region", ![m].exit = "assert"]
               /\ pc' = [pc EXCEPT ![m] = "dead"]
               /\ UNCHANGED sb_rd_req_q
          ELSE /\ sb_rd_req_q' = [sb_rd_req_q EXCEPT ![dst] =
                    Append(@, Wrap(rd_req_s, m, TxOfAddr(rd_req_s.addr, RD_M_LANES)))]
               /\ pc' = [pc EXCEPT ![m] = "rd_unlock1"]
               /\ UNCHANGED <<halted, loc>>
  /\ UNCHANGED <<sb_lock, sb_rd_resp_q, sb_wr_req_q, sb_wr_data_q,
                 sb_wr_resp_q, sb_rd_order_q, sb_wr_order_q, stored_rd_trans,
                 stored_wr_trans, stored_wr_data, cnt, gen_left, pred, slaveVars, portVars>>

\* line 266
RdUnlock1(m) ==
  /\ ~halted /\ pc[m] = "rd_unlock1"
  /\ Unlock(m)
  /\ pc' = [pc EXCEPT ![m] = "rd_order"]
  /\ UNCHANGED <<sb_rd_req_q, sb_rd_resp_q, sb_wr_req_q, sb_wr_data_q,
                 sb_wr_resp_q, sb_rd_order_q, sb_wr_order_q, stored_rd_trans,
                 stored_wr_trans, stored_wr_data, cnt, loc, halted, gen_left,
                 pred, slaveVars, portVars>>

\* lines 268-271: the order queue and the generated counter
RdPushOrder(m) ==
  /\ ~halted /\ pc[m] = "rd_order"
  /\ sb_rd_order_q' = [sb_rd_order_q EXCEPT ![m] = Append(@, loc[m].req)]
  /\ cnt' = [cnt EXCEPT ![m].rd_trans_generated = @ + 1]
  /\ pc' = [pc EXCEPT ![m] = "rd_lock2"]
  /\ UNCHANGED <<sb_lock, sb_rd_req_q, sb_rd_resp_q, sb_wr_req_q, sb_wr_data_q,
                 sb_wr_resp_q, sb_wr_order_q, stored_rd_trans,
                 stored_wr_trans, stored_wr_data, loc, halted, gen_left,
                 pred, slaveVars, portVars>>

\* line 276
RdLock2(m) ==
  /\ ~halted /\ pc[m] = "rd_lock2"
  /\ Lock(m)
  /\ pc' = [pc EXCEPT ![m] = "rd_beats"]
  /\ UNCHANGED <<sb_rd_req_q, sb_rd_resp_q, sb_wr_req_q, sb_wr_data_q,
                 sb_wr_resp_q, sb_rd_order_q, sb_wr_order_q, stored_rd_trans,
                 stored_wr_trans, stored_wr_data, cnt, loc, halted, gen_left,
                 pred, slaveVars, portVars>>

\* lines 277-311: the expected beats go to the master's response queue
RdPushBeats(m) ==
  /\ ~halted /\ pc[m] = "rd_beats"
  /\ LET req == loc[m].req
         dst == mem_map_resolve(req.addr)
         walk == RdWalk(req, RD_M_LANES, dst)
     IN IF dst = NotFound
          THEN /\ halted' = TRUE
               /\ loc' = [loc EXCEPT ![m].outcome = "no_region", ![m].exit = "assert"]
               /\ pc' = [pc EXCEPT ![m] = "dead"]
               /\ UNCHANGED <<sb_rd_resp_q, cnt>>
          ELSE /\ sb_rd_resp_q' = [sb_rd_resp_q EXCEPT ![m] =
                    @ \o WrapAll(walk.beats, m, TxOfAddr(req.addr, RD_M_LANES))]
               /\ cnt' = [cnt EXCEPT ![m].rd_data_generated = @ + Len(walk.beats)]
               /\ pc' = [pc EXCEPT ![m] = "rd_unlock2"]
               /\ UNCHANGED <<halted, loc>>
  /\ UNCHANGED <<sb_lock, sb_rd_req_q, sb_wr_req_q, sb_wr_data_q,
                 sb_wr_resp_q, sb_rd_order_q, sb_wr_order_q, stored_rd_trans,
                 stored_wr_trans, stored_wr_data, gen_left, pred, slaveVars, portVars>>

\* line 312
RdUnlock2(m) ==
  /\ ~halted /\ pc[m] = "rd_unlock2"
  /\ Unlock(m)
  /\ pc' = [pc EXCEPT ![m] = "idle"]
  /\ loc' = [loc EXCEPT ![m] = LocIdle]
  /\ UNCHANGED <<sb_rd_req_q, sb_rd_resp_q, sb_wr_req_q, sb_wr_data_q,
                 sb_wr_resp_q, sb_rd_order_q, sb_wr_order_q, stored_rd_trans,
                 stored_wr_trans, stored_wr_data, cnt, halted, gen_left,
                 pred, slaveVars, portVars>>

(***************************************************************************)
(* gen_new_wr_trans                                                        *)
(***************************************************************************)
\* do_cycle lines 175-177 and gen_new_wr_trans line 317
WrLock(m) ==
  /\ ~halted /\ pc[m] = "idle" /\ gen_left > 0
  /\ GEN_RATE_WR[m] > 0          \* some rnd_val_wr = rand()%100 is below the rate
  /\ Lock(m)
  /\ gen_left' = gen_left - 1
  /\ pc' = [pc EXCEPT ![m] = "wr_gen"]
  /\ UNCHANGED <<sb_rd_req_q, sb_rd_resp_q, sb_wr_req_q, sb_wr_data_q,
                 sb_wr_resp_q, sb_rd_order_q, sb_wr_order_q, stored_rd_trans,
                 stored_wr_trans, stored_wr_data, cnt, loc, halted,
                 pred, slaveVars, portVars>>

\* lines 318-415: draw, injection queue, order queue, request and beats
WrGen(m) ==
  /\ ~halted /\ pc[m] = "wr_gen"
  /\ \E rid \in RandVals, rsize \in RandVals, rburst \in RandVals,
        rlen \in RandVals, rsel \in RandVals :
       LET req == GenReq(WR_M_LANES, WR_S_LANES, cnt[m].gen_wr_addr,
                         rid, rsize, rburst, rlen, rsel, 0, 0)
           s_wr_req == WrSlaveReq(req, WR_S_LANES)
           dst == mem_map_resolve(s_wr_req.addr)
           tx == TxOfAddr(req.addr, WR_M_LANES)
           walk == WrWalk(req, WR_M_LANES, WR_S_LANES, m)
       IN /\ stored_wr_trans' = [stored_wr_trans EXCEPT ![m] = Append(@, req)]
          /\ sb_wr_order_q' = [sb_wr_order_q EXCEPT ![m] = Append(@, req)]
          /\ IF dst = NotFound
               THEN /\ halted' = TRUE
                    /\ loc' = [loc EXCEPT ![m] =
                         [LocIdle EXCEPT !.req = req, !.outcome = "no_region",
                                         !.exit = "assert"]]
                    /\ pc' = [pc EXCEPT ![m] = "dead"]
                    /\ cnt' = [cnt EXCEPT ![m].gen_wr_addr = @ + WR_M_LANES]
                    /\ UNCHANGED <<sb_wr_req_q, sb_wr_data_q, stored_wr_data>>
               ELSE /\ sb_wr_req_q' = [sb_wr_req_q EXCEPT ![dst] =
                         Append(@, Wrap(s_wr_req, m, tx))]
                    /\ stored_wr_data' = [stored_wr_data EXCEPT ![m] = @ \o walk.m_beats]
                    /\ sb_wr_data_q' = [sb_wr_data_q EXCEPT ![dst] =
                         @ \o WrapAll(walk.s_beats, m, tx)]
                    /\ cnt' = [cnt EXCEPT
                         ![m].gen_wr_addr = @ + WR_M_LANES,
                         ![m].wr_data_generated = @ + Len(walk.m_beats),
                         ![m].wr_resp_data_count = @ + Len(walk.s_beats)]
                    /\ loc' = [loc EXCEPT ![m] = [LocIdle EXCEPT !.req = req]]
                    /\ pc' = [pc EXCEPT ![m] = "wr_unlock"]
                    /\ UNCHANGED halted
  /\ UNCHANGED <<sb_lock, sb_rd_req_q, sb_rd_resp_q, sb_wr_resp_q, sb_rd_order_q,
                 stored_rd_trans, gen_left, pred, slaveVars, portVars>>

\* lines 417-419
WrUnlock(m) ==
  /\ ~halted /\ pc[m] = "wr_unlock"
  /\ Unlock(m)
  /\ cnt' = [cnt EXCEPT ![m].wr_trans_generated = @ + 1]
  /\ loc' = [loc EXCEPT ![m] = LocIdle]
  /\ pc' = [pc EXCEPT ![m] = "idle"]
  /\ UNCHANGED <<sb_rd_req_q, sb_rd_resp_q, sb_wr_req_q, sb_wr_data_q,
                 sb_wr_resp_q, sb_rd_order_q, sb_wr_order_q, stored_rd_trans,
                 stored_wr_trans, stored_wr_data, halted, gen_left,
                 pred, slaveVars, portVars>>

(***************************************************************************)
(* The slave side of the test bench: it takes the oldest expected write    *)
(* request of a destination with its beats and predicts the B response     *)
(* (id, resp = its own index) into the originating master's queue.         *)
(***************************************************************************)
SlaveWrResp(d) ==
  /\ ~halted /\ sb_lock = NoOwner
  /\ sb_wr_req_q[d] # << >>
  /\ LET e == Head(sb_wr_req_q[d])
         n == IF e.dut_msg.len + 1 <= Len(sb_wr_data_q[d])
                THEN e.dut_msg.len + 1 ELSE Len(sb_wr_data_q[d])
     IN /\ sb_wr_req_q' = [sb_wr_req_q EXCEPT ![d] = Tail(@)]
        /\ sb_wr_data_q' = [sb_wr_data_q EXCEPT ![d] = SubSeq(@, n + 1, Len(@))]
        /\ sb_wr_resp_q' = [sb_wr_resp_q EXCEPT ![e.src] =
             Append(@, Wrap([id |-> e.dut_msg.id, resp |-> d], e.src, e.tx))]
  /\ UNCHANGED <<pc, sb_lock, sb_rd_req_q, sb_rd_resp_q, sb_rd_order_q,
                 sb_wr_order_q, stored_rd_trans, stored_wr_trans, stored_wr_data,
                 cnt, loc, halted, gen_left, pred, slaveVars, portVars>>

(***************************************************************************)
(* verify_rd_resp / verify_wr_resp                                         *)
(***************************************************************************)
TidMask(id) == id % Pow2(ID_W)

eq_rd_data(rcv_rd_data, sb_rd_data) ==
  /\ TidMask(rcv_rd_data.id) = TidMask(sb_rd_data.id)
  /\ rcv_rd_data.data = sb_rd_data.data
  /\ rcv_rd_data.resp = sb_rd_data.resp
  /\ rcv_rd_data.last = sb_rd_data.last

eq_wr_resp(rcv_wr_resp, sb_wr_resp) ==
  /\ TidMask(rcv_wr_resp.id) = TidMask(sb_wr_resp.id)
  /\ rcv_wr_resp.resp = sb_wr_resp.resp

ScanOrderLast(q, id, j) ==
  LET S == { i \in j..(Len(q) - 1) : q[i + 1].id = id }
  IN IF S = {} THEN Len(q) ELSE CHOOSE i \in S : \A k \in S : k <= i

\* the reorder loop: the 0-based index of the first order entry with the
\* response's id, Len(q) when the loop runs off the end
RECURSIVE ScanOrder(_, _, _)
ScanOrder(q, id, j) ==
  IF j >= Len(q) THEN Len(q)
  ELSE IF q[j + 1].id = id THEN j
  ELSE ScanOrder(q, id, j + 1)

\* int reorder, from the entry the loop stopped at
ReorderOfNoCheck(q, j, resp) == IF j >= Len(q) THEN 2 ELSE 0

ReorderOf(q, j, resp) ==
  IF j >= Len(q) THEN 2
  ELSE IF mem_map_resolve(q[j + 1].addr) = resp THEN 0 ELSE 1

RdOrderAfterAlways(q, j, last) == IF j < Len(q) THEN Erase(q, j) ELSE q

\* sb_rd_order_q after the loop: line 441 erases the entry only under last
RdOrderAfter(q, j, last) == IF j < Len(q) /\ last THEN Erase(q, j) ELSE q

\* sb_wr_order_q after the loop: line 509 erases the entry it stopped at
WrOrderAfter(q, j) == IF j < Len(q) THEN Erase(q, j) ELSE q

\* sb_ord_req after the loop: the last entry it was assigned
OrdReqAfter(q, j) ==
  IF q = << >> THEN NoReq ELSE IF j >= Len(q) THEN q[Len(q)] ELSE q[j + 1]

\* the content loops: the 0-based index of the first equal entry, else Len(q)
RECURSIVE ScanRdResp(_, _, _)
ScanRdResp(q, rcv, j) ==
  IF j >= Len(q) THEN Len(q)
  ELSE IF eq_rd_data(rcv, q[j + 1].dut_msg) THEN j
  ELSE ScanRdResp(q, rcv, j + 1)

ScanWrRespFront(q, rcv, j) == IF j >= Len(q) THEN Len(q) ELSE j

RECURSIVE ScanWrResp(_, _, _)
ScanWrResp(q, rcv, j) ==
  IF j >= Len(q) THEN Len(q)
  ELSE IF eq_wr_resp(q[j + 1].dut_msg, rcv) THEN j
  ELSE ScanWrResp(q, rcv, j + 1)

\* the if / else-if chain that ends the call
OutcomeOrderFirst(found, reorder) ==
  IF reorder = 2 THEN "req_not_found"
  ELSE IF reorder = 1 THEN "reordered"
  ELSE IF ~found THEN "not_found"
  ELSE "ok"

OutcomeOf(found, reorder) ==
  IF ~found THEN "not_found"
  ELSE IF reorder = 2 THEN "req_not_found"
  ELSE IF reorder = 1 THEN "reordered"
  ELSE "ok"

\* The diagnostic of a fatal branch prints front() of a queue; on an empty
\* deque that is undefined: the run either dies there or goes on to sc_assert.
ExitsOf(outcome, resp_q_after, order_q_after) ==
  IF outcome = "ok" THEN {"return"}
  ELSE IF (outcome = "not_found" /\ resp_q_after = << >>)
          \/ (outcome = "req_not_found" /\ order_q_after = << >>)
    THEN {"assert", "crash"}
  ELSE {"assert"}

\* What the R channel can hand to master m: any expected beat, in any order
\* (the fabric may reorder), the oldest expected beat with another slave's
\* index in resp, or, with nothing expected, a beat nobody asked for.
SeqRange(q) == { q[i] : i \in DOMAIN q }

OtherResp(resp) == (resp + 1) % SLAVE_NUM

RdOffers(m) ==
  IF sb_rd_resp_q[m] = << >>
    THEN { [rsp |-> [id |-> AXI_TID_NUM - 1, data |-> ZeroData, resp |-> 0,
                     last |-> TRUE], tx |-> 0] }
    ELSE { [rsp |-> e.dut_msg, tx |-> e.tx] : e \in SeqRange(sb_rd_resp_q[m]) }
         \cup { [rsp |-> [Head(sb_rd_resp_q[m]).dut_msg EXCEPT !.resp = OtherResp(@)],
                 tx |-> 0] }

WrOffers(m) ==
  IF sb_wr_resp_q[m] = << >>
    THEN { [rsp |-> [id |-> AXI_TID_NUM - 1, resp |-> 0], tx |-> 0] }
    ELSE { [rsp |-> e.dut_msg, tx |-> e.tx] : e \in SeqRange(sb_wr_resp_q[m]) }
         \cup { [rsp |-> [Head(sb_wr_resp_q[m]).dut_msg EXCEPT !.resp = OtherResp(@)],
                 tx |-> 0] }

\* do_cycle line 213-214 and verify_rd_resp line 428
VrLock(m) ==
  /\ ~halted /\ pc[m] = "idle"
  /\ Lock(m)
  /\ \E o \in RdOffers(m) :
       loc' = [loc EXCEPT ![m] = [LocIdle EXCEPT !.rcv = o.rsp, !.rcv_tx = o.tx]]
  /\ pc' = [pc EXCEPT ![m] = "vr_body"]
  /\ UNCHANGED <<sb_rd_req_q, sb_rd_resp_q, sb_wr_req_q, sb_wr_data_q,
                 sb_wr_resp_q, sb_rd_order_q, sb_wr_order_q, stored_rd_trans,
                 stored_wr_trans, stored_wr_data, cnt, halted, gen_left,
                 pred, slaveVars, portVars>>

\* lines 430-490
VrBody(m) ==
  /\ ~halted /\ pc[m] = "vr_body"
  /\ LET rcv     == loc[m].rcv
         ord_q   == sb_rd_order_q[m]
         j_ord   == ScanOrder(ord_q, rcv.id, 0)
         reorder == ReorderOf(ord_q, j_ord, rcv.resp)
         ord_q1  == RdOrderAfter(ord_q, j_ord, rcv.last)
         rsp_q   == sb_rd_resp_q[m]
         j_rsp   == ScanRdResp(rsp_q, rcv, 0)
         found   == j_rsp < Len(rsp_q)
         rsp_q1  == IF found THEN Erase(rsp_q, j_rsp) ELSE rsp_q
         outcome == OutcomeOf(found, reorder)
     IN /\ sb_rd_order_q' = [sb_rd_order_q EXCEPT ![m] = ord_q1]
        /\ sb_rd_resp_q' = [sb_rd_resp_q EXCEPT ![m] = rsp_q1]
        /\ \E exit \in ExitsOf(outcome, rsp_q1, ord_q1) :
             /\ loc' = [loc EXCEPT ![m].sb_ord_req = OrdReqAfter(ord_q, j_ord),
                                   ![m].reorder = reorder,
                                   ![m].found = found,
                                   ![m].outcome = outcome,
                                   ![m].exit = exit]
             /\ cnt' = [cnt EXCEPT
                  ![m].rd_resp_count =
                     IF found /\ rsp_q[j_rsp + 1].dut_msg.last THEN @ + 1 ELSE @,
                  ![m].rd_resp_data_count = IF found THEN @ + 1 ELSE @,
                  ![m].error_sb_rd_resp_not_found =
                     IF outcome = "not_found" /\ exit = "assert" THEN @ + 1 ELSE @,
                  ![m].rd_resp_ej = IF outcome = "ok" THEN @ + 1 ELSE @]
        /\ halted' = (outcome # "ok")
        /\ pc' = [pc EXCEPT ![m] = IF outcome = "ok" THEN "vr_unlock" ELSE "dead"]
  /\ UNCHANGED <<sb_lock, sb_rd_req_q, sb_wr_req_q, sb_wr_data_q, sb_wr_resp_q,
                 sb_wr_order_q, stored_rd_trans, stored_wr_trans, stored_wr_data,
                 gen_left, pred, slaveVars, portVars>>

\* line 491
VrUnlock(m) ==
  /\ ~halted /\ pc[m] = "vr_unlock"
  /\ Unlock(m)
  /\ loc' = [loc EXCEPT ![m] = LocIdle]
  /\ pc' = [pc EXCEPT ![m] = "idle"]
  /\ UNCHANGED <<sb_rd_req_q, sb_rd_resp_q, sb_wr_req_q, sb_wr_data_q,
                 sb_wr_resp_q, sb_rd_order_q, sb_wr_order_q, stored_rd_trans,
                 stored_wr_trans, stored_wr_data, cnt, halted, gen_left,
                 pred, slaveVars, portVars>>

\* do_cycle line 218-219 and verify_wr_resp line 497
VwLock(m) ==
  /\ ~halted /\ pc[m] = "idle"
  /\ Lock(m)
  /\ \E o \in WrOffers(m) :
       loc' = [loc EXCEPT ![m] = [LocIdle EXCEPT !.rcv = o.rsp, !.rcv_tx = o.tx]]
  /\ pc' = [pc EXCEPT ![m] = "vw_body"]
  /\ UNCHANGED <<sb_rd_req_q, sb_rd_resp_q, sb_wr_req_q, sb_wr_data_q,
                 sb_wr_resp_q, sb_rd_order_q, sb_wr_order_q, stored_rd_trans,
                 stored_wr_trans, stored_wr_data, cnt, halted, gen_left,
                 pred, slaveVars, portVars>>

\* lines 498-555
VwBody(m) ==
  /\ ~halted /\ pc[m] = "vw_body"
  /\ LET rcv     == loc[m].rcv
         ord_q   == sb_wr_order_q[m]
         j_ord   == ScanOrder(ord_q, rcv.id, 0)
         reorder == ReorderOf(ord_q, j_ord, rcv.resp)
         ord_q1  == WrOrderAfter(ord_q, j_ord)
         rsp_q   == sb_wr_resp_q[m]
         j_rsp   == ScanWrResp(rsp_q, rcv, 0)
         found   == j_rsp < Len(rsp_q)
         rsp_q1  == IF found THEN Erase(rsp_q, j_rsp) ELSE rsp_q
         outcome == OutcomeOf(found, reorder)
     IN /\ sb_wr_order_q' = [sb_wr_order_q EXCEPT ![m] = ord_q1]
        /\ sb_wr_resp_q' = [sb_wr_resp_q EXCEPT ![m] = rsp_q1]
        /\ \E exit \in ExitsOf(outcome, rsp_q1, ord_q1) :
             /\ loc' = [loc EXCEPT ![m].sb_ord_req = OrdReqAfter(ord_q, j_ord),
                                   ![m].reorder = reorder,
                                   ![m].found = found,
                                   ![m].outcome = outcome,
                                   ![m].exit = exit]
             /\ cnt' = [cnt EXCEPT
                  ![m].wr_resp_count = IF found THEN @ + 1 ELSE @,
                  ![m].error_sb_wr_resp_not_found =
                     IF outcome = "not_found" /\ exit = "assert" THEN @ + 1 ELSE @,
                  ![m].wr_resp_ej = IF outcome = "ok" THEN @ + 1 ELSE @]
        /\ halted' = (outcome # "ok")
        /\ pc' = [pc EXCEPT ![m] = IF outcome = "ok" THEN "vw_unlock" ELSE "dead"]
  /\ UNCHANGED <<sb_lock, sb_rd_req_q, sb_rd_resp_q, sb_wr_req_q, sb_wr_data_q,
                 sb_rd_order_q, stored_rd_trans, stored_wr_trans, stored_wr_data,
                 gen_left, pred, slaveVars, portVars>>

\* line 556
VwUnlock(m) ==
  /\ ~halted /\ pc[m] = "vw_unlock"
  /\ Unlock(m)
  /\ loc' = [loc EXCEPT ![m] = LocIdle]
  /\ pc' = [pc EXCEPT ![m] = "idle"]
  /\ UNCHANGED <<sb_rd_req_q, sb_rd_resp_q, sb_wr_req_q, sb_wr_data_q,
                 sb_wr_resp_q, sb_rd_order_q, sb_wr_order_q, stored_rd_trans,
                 stored_wr_trans, stored_wr_data, cnt, halted, gen_left,
                 pred, slaveVars, portVars>>

(***************************************************************************)
(* Specifications                                                          *)
(***************************************************************************)
Init ==
  /\ InitSb
  /\ gen_left = MaxGen
  /\ pred = PredIdle
  /\ InitSlave
  /\ InitMap /\ InitPay /\ InitMst /\ InitInj /\ InitVfy /\ InitBlk /\ InitStop

Next ==
  \/ \E m \in Masters : GenRdDraw(m)
  \/ \E m \in Masters : RdLock1(m)
  \/ \E m \in Masters : RdPushReq(m)
  \/ \E m \in Masters : RdUnlock1(m)
  \/ \E m \in Masters : RdPushOrder(m)
  \/ \E m \in Masters : RdLock2(m)
  \/ \E m \in Masters : RdPushBeats(m)
  \/ \E m \in Masters : RdUnlock2(m)
  \/ \E m \in Masters : WrLock(m)
  \/ \E m \in Masters : WrGen(m)
  \/ \E m \in Masters : WrUnlock(m)
  \/ \E d \in Slaves : SlaveWrResp(d)
  \/ \E m \in Masters : VrLock(m)
  \/ \E m \in Masters : VrBody(m)
  \/ \E m \in Masters : VrUnlock(m)
  \/ \E m \in Masters : VwLock(m)
  \/ \E m \in Masters : VwBody(m)
  \/ \E m \in Masters : VwUnlock(m)

Spec == Init /\ [][Next]_vars

InitPred ==
  /\ InitSb
  /\ gen_left = 0
  /\ pred \in PredInputs
  /\ InitSlave
  /\ InitMap /\ InitPay /\ InitMst /\ InitInj /\ InitVfy /\ InitBlk /\ InitStop

SpecPred == InitPred /\ [][NextPred]_vars

(***************************************************************************)
(* Properties of the scoreboard (Spec)                                     *)
(***************************************************************************)
\* the steps that run the body of verify_rd_resp / verify_wr_resp
VrBodyStep(m) == pc[m] = "vr_body" /\ pc'[m] # "vr_body"
VwBodyStep(m) == pc[m] = "vw_body" /\ pc'[m] # "vw_body"

\* the position (1-based) of the oldest order entry with this id, 0 if none
OldestSameId(q, id) ==
  IF \E j \in DOMAIN q : q[j].id = id
    THEN CHOOSE j \in DOMAIN q : q[j].id = id /\ \A i \in 1..(j - 1) : q[i].id # id
    ELSE 0

\* the presented response answers transaction rcv_tx, generated after an
\* order entry of the same id that is still waiting, and it is not equal to
\* any expected response of an earlier transaction
RdLaterBeforeEarlier(m) ==
  /\ loc[m].rcv_tx > 0
  /\ \E j \in DOMAIN sb_rd_order_q[m] :
       /\ sb_rd_order_q[m][j].id = loc[m].rcv.id
       /\ TxOfAddr(sb_rd_order_q[m][j].addr, RD_M_LANES) < loc[m].rcv_tx
  /\ \A e \in SeqRange(sb_rd_resp_q[m]) :
       e.tx < loc[m].rcv_tx => ~eq_rd_data(loc[m].rcv, e.dut_msg)

WrLaterBeforeEarlier(m) ==
  /\ loc[m].rcv_tx > 0
  /\ \E j \in DOMAIN sb_wr_order_q[m] :
       /\ sb_wr_order_q[m][j].id = loc[m].rcv.id
       /\ TxOfAddr(sb_wr_order_q[m][j].addr, WR_M_LANES) < loc[m].rcv_tx
  /\ \A e \in SeqRange(sb_wr_resp_q[m]) :
       e.tx < loc[m].rcv_tx => ~eq_wr_resp(e.dut_msg, loc[m].rcv)

\* C1 as stated: whenever the response of a later-generated transaction is
\* presented before that of an earlier one with the same id, whatever their
\* destinations, the verifier ends in the reordered outcome, never success.
C1_Original ==
  [][ \A m \in Masters :
        /\ (VrBodyStep(m) /\ RdLaterBeforeEarlier(m)) => loc'[m].outcome = "reordered"
        /\ (VwBodyStep(m) /\ WrLaterBeforeEarlier(m)) => loc'[m].outcome = "reordered"
    ]_vars

\* the oldest order entry of the response's id belongs to a transaction
\* generated before the one the presented response answers
RdOldestIsEarlier(m) ==
  LET j == OldestSameId(sb_rd_order_q[m], loc[m].rcv.id)
  IN /\ loc[m].rcv_tx > 0
     /\ j > 0
     /\ TxOfAddr(sb_rd_order_q[m][j].addr, RD_M_LANES) < loc[m].rcv_tx

WrOldestIsEarlier(m) ==
  LET j == OldestSameId(sb_wr_order_q[m], loc[m].rcv.id)
  IN /\ loc[m].rcv_tx > 0
     /\ j > 0
     /\ TxOfAddr(sb_wr_order_q[m][j].addr, WR_M_LANES) < loc[m].rcv_tx

\* the destination the oldest order entry of this id resolves to
OldestDst(q, id) == mem_map_resolve(q[OldestSameId(q, id)].addr)

\* C1 (amended): when the response of a later-generated transaction is
\* presented while an earlier one is the oldest order entry of its id, the
\* verifier ends in the reordered outcome, halting with the ejected counter
\* unchanged, exactly when the two resolve to different destinations; with
\* the same destination the response is accepted.
C1_ReorderDetected ==
  [][ \A m \in Masters :
        /\ (VrBodyStep(m) /\ RdOldestIsEarlier(m)) =>
              IF OldestDst(sb_rd_order_q[m], loc[m].rcv.id) # loc[m].rcv.resp
                THEN /\ loc'[m].outcome = "reordered"
                     /\ halted'
                     /\ cnt'[m].rd_resp_ej = cnt[m].rd_resp_ej
                ELSE loc'[m].outcome = "ok"
        /\ (VwBodyStep(m) /\ WrOldestIsEarlier(m)) =>
              IF OldestDst(sb_wr_order_q[m], loc[m].rcv.id) # loc[m].rcv.resp
                THEN /\ loc'[m].outcome = "reordered"
                     /\ halted'
                     /\ cnt'[m].wr_resp_ej = cnt[m].wr_resp_ej
                ELSE loc'[m].outcome = "ok"
    ]_vars

\* master 0 was handed an expected read beat of a transaction generated
\* after the order entry the check stopped at, and ended in reordered
C1_Witness ==
  /\ pc[0] = "dead"
  /\ loc[0].outcome = "reordered"
  /\ loc[0].found
  /\ "data" \in DOMAIN loc[0].rcv
  /\ loc[0].rcv_tx > TxOfAddr(loc[0].sb_ord_req.addr, RD_M_LANES)
  /\ loc[0].sb_ord_req.id = loc[0].rcv.id

\* q2 is q without its first entry that satisfies Match, or q when none does
RemovedFirstMatch(q, q2, Match(_)) ==
  IF \E j \in DOMAIN q : Match(q[j])
    THEN \E j \in DOMAIN q :
           /\ Match(q[j])
           /\ \A i \in 1..(j - 1) : ~Match(q[i])
           /\ Len(q2) = Len(q) - 1
           /\ \A i \in 1..(j - 1) : q2[i] = q[i]
           /\ \A i \in j..Len(q2) : q2[i] = q[i + 1]
    ELSE q2 = q

\* C2: a verify call whose content check succeeds removes exactly the first
\* equal entry of the calling master's expected-response queue and keeps
\* the rest in order; a failed check removes nothing; the other masters'
\* queues are untouched.
C2_ExactlyOneRemoved ==
  [][ \A m \in Masters :
        /\ VrBodyStep(m) =>
             /\ LET RdMatch(e) == eq_rd_data(loc[m].rcv, e.dut_msg)
                IN RemovedFirstMatch(sb_rd_resp_q[m], sb_rd_resp_q'[m], RdMatch)
             /\ \A n \in Masters \ {m} : sb_rd_resp_q'[n] = sb_rd_resp_q[n]
             /\ sb_wr_resp_q' = sb_wr_resp_q
        /\ VwBodyStep(m) =>
             /\ LET WrMatch(e) == eq_wr_resp(e.dut_msg, loc[m].rcv)
                IN RemovedFirstMatch(sb_wr_resp_q[m], sb_wr_resp_q'[m], WrMatch)
             /\ \A n \in Masters \ {m} : sb_wr_resp_q'[n] = sb_wr_resp_q[n]
             /\ sb_rd_resp_q' = sb_rd_resp_q
    ]_vars

\* a read beat was matched while an equal expected beat of another
\* transaction is still waiting behind an unequal one
C2_Witness ==
  /\ pc[0] = "vr_unlock"
  /\ loc[0].found
  /\ Len(sb_rd_resp_q[0]) >= 2
  /\ ~eq_rd_data(loc[0].rcv, sb_rd_resp_q[0][1].dut_msg)
  /\ \E e \in SeqRange(sb_rd_resp_q[0]) : eq_rd_data(loc[0].rcv, e.dut_msg)

\* the reorder status, from the oldest order entry with the response's id
StatusOf(q, rcv) ==
  IF OldestSameId(q, rcv.id) = 0 THEN 2
  ELSE IF OldestDst(q, rcv.id) = rcv.resp THEN 0 ELSE 1

PrecedenceOf(found, status) ==
  CASE ~found -> "not_found"
    [] found /\ status = 2 -> "req_not_found"
    [] found /\ status = 1 -> "reordered"
    [] found /\ status = 0 -> "ok"

\* C3: content not found -> fatal; else status 2 -> fatal; else status 1 ->
\* fatal; else success.  The ejected counter goes up by one on success and
\* is unchanged on every fatal outcome, which ends the run.
C3_OutcomePrecedence ==
  [][ \A m \in Masters :
        /\ VrBodyStep(m) =>
             LET found == \E e \in SeqRange(sb_rd_resp_q[m]) :
                             eq_rd_data(loc[m].rcv, e.dut_msg)
                 out == PrecedenceOf(found, StatusOf(sb_rd_order_q[m], loc[m].rcv))
             IN /\ loc'[m].outcome = out
                /\ cnt'[m].rd_resp_ej = cnt[m].rd_resp_ej + (IF out = "ok" THEN 1 ELSE 0)
                /\ cnt'[m].wr_resp_ej = cnt[m].wr_resp_ej
                /\ halted' = (out # "ok")
                /\ (out = "ok") = (loc'[m].exit = "return")
        /\ VwBodyStep(m) =>
             LET found == \E e \in SeqRange(sb_wr_resp_q[m]) :
                             eq_wr_resp(e.dut_msg, loc[m].rcv)
                 out == PrecedenceOf(found, StatusOf(sb_wr_order_q[m], loc[m].rcv))
             IN /\ loc'[m].outcome = out
                /\ cnt'[m].wr_resp_ej = cnt[m].wr_resp_ej + (IF out = "ok" THEN 1 ELSE 0)
                /\ cnt'[m].rd_resp_ej = cnt[m].rd_resp_ej
                /\ halted' = (out # "ok")
                /\ (out = "ok") = (loc'[m].exit = "return")
    ]_vars

\* a response that fails both checks ends as not found (the first test of
\* the chain), after an earlier response of the same master was accepted
C3_Witness ==
  \E m \in Masters :
    /\ pc[m] = "dead"
    /\ ~loc[m].found /\ loc[m].reorder = 1
    /\ loc[m].outcome = "not_found"
    /\ cnt[m].rd_resp_ej + cnt[m].wr_resp_ej = 1

\* the positions inside a locked section, and those whose step touches the
\* shared queues
LockedPcs == {"rd_req", "rd_unlock1", "rd_beats", "rd_unlock2", "wr_gen", "wr_unlock",
              "vr_body", "vr_unlock", "vw_body", "vw_unlock"}
AccessPcs == {"rd_req", "rd_beats", "wr_gen", "vr_body", "vw_body"}
SharedQueues == <<sb_rd_req_q, sb_rd_resp_q, sb_wr_req_q, sb_wr_data_q, sb_wr_resp_q>>

\* C4: every access of a master to the shared scoreboard queues is made
\* while it holds sb_lock, and at most one master is in a locked section.
C4_LockDiscipline ==
  /\ [](\A m \in Masters : pc[m] \in LockedPcs => sb_lock = m)
  /\ [](Cardinality({m \in Masters : pc[m] \in LockedPcs}) <= 1)
  /\ [][ \A m \in Masters :
           (pc'[m] # pc[m] /\ (pc[m] \in AccessPcs \/ SharedQueues' # SharedQueues))
             => (sb_lock = m /\ sb_lock' = m)
       ]_vars

\* master 1 fills the scoreboard inside its section while master 0, between
\* its two sections, waits for the lock
C4_Witness ==
  /\ pc[1] = "wr_gen" /\ sb_lock = 1
  /\ pc[0] = "rd_lock2"

\* the positions of a generate operation from its request-queue insertion
\* to the release that follows its last expected beat
GenPcs == {"rd_req", "rd_unlock1", "rd_order", "rd_lock2", "rd_beats", "rd_unlock2",
           "wr_gen", "wr_unlock"}

\* C5: a generate operation is one critical section; from its
\* request-queue insertion to its last expected beat, the order-queue
\* insertion included, the master holds sb_lock.
C5_SingleSection == \A m \in Masters : pc[m] \in GenPcs => sb_lock = m

(***************************************************************************)
(* SpecSlave: write::slave over its AW and W channels.  The environment    *)
(* (the master side) puts numbered payloads on the two channels in any     *)
(* interleaving; PopNB takes the oldest waiting payload, if any.           *)
(***************************************************************************)
AwArrive ==
  /\ hist.aw_sent < MaxMsgs
  /\ aw_chan' = Append(aw_chan, hist.aw_sent + 1)
  /\ hist' = [hist EXCEPT !.aw_sent = @ + 1]
  /\ UNCHANGED <<w_chan, got_waddr, stored_waddr, nb, sbVars, pred, portVars>>

WArrive ==
  /\ hist.w_sent < MaxMsgs
  /\ w_chan' = Append(w_chan, 100 + hist.w_sent + 1)
  /\ hist' = [hist EXCEPT !.w_sent = @ + 1]
  /\ UNCHANGED <<aw_chan, got_waddr, stored_waddr, nb, sbVars, pred, portVars>>

\* nb_wread lines 593-602: the address half.  go: the call goes on to W.
AddrPhaseAlwaysPop(got, stored, aw) ==
  IF aw = << >>
    THEN [go |-> got, got |-> got, stored |-> stored, addr |-> stored,
          aw |-> aw, popped |-> FALSE]
    ELSE [go |-> TRUE, got |-> TRUE, stored |-> Head(aw), addr |-> Head(aw),
          aw |-> Tail(aw), popped |-> TRUE]

AddrPhase(got, stored, aw) ==
  IF ~got
    THEN IF aw = << >>
           THEN [go |-> FALSE, got |-> FALSE, stored |-> stored, addr |-> 0,
                 aw |-> aw, popped |-> FALSE]
           ELSE [go |-> TRUE, got |-> TRUE, stored |-> Head(aw), addr |-> Head(aw),
                 aw |-> Tail(aw), popped |-> TRUE]
    ELSE [go |-> TRUE, got |-> TRUE, stored |-> stored, addr |-> stored,
          aw |-> aw, popped |-> FALSE]

\* nb_wread lines 604-609: the data half
DataPhaseKeepsAddr(got, w) ==
  IF w # << >>
    THEN [ret |-> TRUE, got |-> got, data |-> Head(w), w |-> Tail(w), popped |-> TRUE]
    ELSE [ret |-> FALSE, got |-> got, data |-> 0, w |-> w, popped |-> FALSE]

DataPhase(got, w) ==
  IF w # << >>
    THEN [ret |-> TRUE, got |-> FALSE, data |-> Head(w), w |-> Tail(w), popped |-> TRUE]
    ELSE [ret |-> FALSE, got |-> got, data |-> 0, w |-> w, popped |-> FALSE]

\* bool nb_wread(AddrPayload &addr, WritePayload &data)
NbWread ==
  LET a == AddrPhase(got_waddr, stored_waddr, aw_chan)
      d == IF a.go THEN DataPhase(a.got, w_chan)
           ELSE [ret |-> FALSE, got |-> a.got, data |-> 0, w |-> w_chan,
                 popped |-> FALSE]
  IN /\ aw_chan' = a.aw
     /\ w_chan' = d.w
     /\ got_waddr' = d.got
     /\ stored_waddr' = a.stored
     /\ nb' = [tick |-> 1 - nb.tick, ret |-> d.ret, addr |-> a.addr, data |-> d.data,
               popped_aw |-> a.popped, popped_w |-> d.popped]
     /\ hist' = [hist EXCEPT
          !.aw_popped = IF a.popped THEN Append(@, a.addr) ELSE @,
          !.w_popped = IF d.popped THEN Append(@, d.data) ELSE @,
          !.returned = IF d.ret THEN Append(@, <<a.addr, d.data>>) ELSE @]
     /\ UNCHANGED <<sbVars, pred, portVars>>

NextSlave == AwArrive \/ WArrive \/ NbWread

InitSlaveSpec ==
  /\ InitSb
  /\ gen_left = 0
  /\ pred = PredIdle
  /\ InitSlave
  /\ InitMap /\ InitPay /\ InitMst /\ InitInj /\ InitVfy /\ InitBlk /\ InitStop

SpecSlave == InitSlaveSpec /\ [][NextSlave]_vars

(***************************************************************************)
(* Properties of the write slave port (SpecSlave)                          *)
(***************************************************************************)
\* C6: driven only through nb_wread from got_waddr = false, the n-th call
\* that returns true returns the n-th payload popped from AW with the n-th
\* popped from W; an address popped by a failed call is held unchanged for
\* the later successful call; nothing popped is dropped or returned twice.
C6_Pairing ==
  /\ \A n \in DOMAIN hist.returned :
       /\ n <= Len(hist.aw_popped) /\ n <= Len(hist.w_popped)
       /\ hist.returned[n] = <<hist.aw_popped[n], hist.w_popped[n]>>
  /\ Len(hist.w_popped) = Len(hist.returned)
  /\ Len(hist.aw_popped) = Len(hist.returned) + (IF got_waddr THEN 1 ELSE 0)
  /\ got_waddr => stored_waddr = hist.aw_popped[Len(hist.aw_popped)]

\* the second pair was returned by a call that popped no address itself: its
\* address had been taken by an earlier call that failed for want of data
C6_Witness ==
  /\ Len(hist.returned) = 2
  /\ nb.ret /\ ~nb.popped_aw
  /\ nb.addr = 2 /\ nb.data = 102

NbCall == nb'.tick # nb.tick

\* C7: while got_waddr is true no step pops AW; got_waddr is false after
\* every call that returns true; a call with got_waddr false and AW empty
\* returns false and does not pop W.
C7_NoReaccept ==
  [][ /\ got_waddr => (hist'.aw_popped = hist.aw_popped /\ Len(aw_chan') >= Len(aw_chan))
      /\ (NbCall /\ nb'.ret) => ~got_waddr'
      /\ (NbCall /\ ~got_waddr /\ aw_chan = << >>) =>
           (~nb'.ret /\ w_chan' = w_chan /\ hist'.w_popped = hist.w_popped)
    ]_vars

\* a call failed while an address was already held, with another address
\* waiting on AW that it left there
C7_Witness ==
  /\ got_waddr
  /\ ~nb.ret /\ ~nb.popped_aw /\ nb.tick = 0
  /\ aw_chan # << >>
  /\ Len(hist.aw_popped) = 1

(***************************************************************************)
(* SpecSlaveAll: write::slave driven through reset(), wread() and          *)
(* nb_wread().  wread() blocks in aw.Pop() and then in w.Pop(); the        *)
(* environment goes on between the two.  What Reset() of a port does to    *)
(* the payloads waiting on its channel is not fixed here: they stay or     *)
(* they are dropped.                                                       *)
(***************************************************************************)
\* reset(), lines 581-585: the three ports, and no member of the slave
AfterResetClear(got) == FALSE

AfterReset(got) == got

SlvReset ==
  /\ blk.at = "none" /\ blk.resets < MaxResets
  /\ aw_chan' \in {aw_chan, << >>}
  /\ w_chan' \in {w_chan, << >>}
  /\ got_waddr' = AfterReset(got_waddr)
  /\ blk' = [blk EXCEPT !.resets = @ + 1, !.reset_got = got_waddr]
  /\ UNCHANGED <<stored_waddr, nb, hist, sbVars, pred, map_call, pay, mst,
                 ar_out, aw_out, w_out, inj, vfy, stop_gen>>

\* wread(), line 588: addr = aw.Pop()
WreadAw ==
  /\ blk.at = "none" /\ aw_chan # << >>
  /\ aw_chan' = Tail(aw_chan)
  /\ blk' = [blk EXCEPT !.at = "w", !.addr = Head(aw_chan)]
  /\ UNCHANGED <<w_chan, got_waddr, stored_waddr, nb, hist, sbVars, pred,
                 map_call, pay, mst, ar_out, aw_out, w_out, inj, vfy, stop_gen>>

\* wread(), line 589: data = w.Pop(), and the return
WreadW ==
  /\ blk.at = "w" /\ w_chan # << >>
  /\ w_chan' = Tail(w_chan)
  /\ blk' = [blk EXCEPT !.at = "none", !.data = Head(w_chan), !.calls = @ + 1]
  /\ UNCHANGED <<aw_chan, got_waddr, stored_waddr, nb, hist, sbVars, pred,
                 map_call, pay, mst, ar_out, aw_out, w_out, inj, vfy, stop_gen>>

\* nb_wread() is called by the thread that calls wread(): not inside it
NbWreadCall == blk.at = "none" /\ NbWread

NextSlaveAll == AwArrive \/ WArrive \/ NbWreadCall \/ SlvReset \/ WreadAw \/ WreadW

SpecSlaveAll == InitSlaveSpec /\ [][NextSlaveAll]_vars

(***************************************************************************)
(* Properties of the write slave port (SpecSlaveAll)                       *)
(***************************************************************************)
ResetStep == blk'.resets # blk.resets
WreadStep == blk'.at # blk.at

\* C29: reset() and the two steps of wread() leave got_waddr and
\* stored_waddr as they were; an address held after a failed nb_wread is the
\* last one nb_wread popped, through any reset() and wread() calls; and the
\* nb_wread that next obtains a data beat returns that address.
C29_RetainedFrame ==
  /\ [](got_waddr =>
          /\ hist.aw_popped # << >>
          /\ stored_waddr = hist.aw_popped[Len(hist.aw_popped)]
          /\ ~nb.ret)
  /\ [][ /\ (ResetStep \/ WreadStep) => UNCHANGED <<got_waddr, stored_waddr>>
         /\ (NbCall /\ got_waddr /\ nb'.ret) =>
              (nb'.addr = stored_waddr /\ ~nb'.popped_aw)
    ]_vars

\* nb_wread took address 1 and failed for want of data; with the address held
\* there was a reset() and a wread() that took address 2 and the first data;
\* the next nb_wread returned address 1 with the second data, popping no
\* address itself
C29_Witness ==
  /\ nb.ret /\ ~nb.popped_aw
  /\ nb.addr = 1 /\ nb.data = 102
  /\ blk.at = "none" /\ blk.calls = 1
  /\ blk.addr = 2 /\ blk.data = 101
  /\ blk.reset_got

(***************************************************************************)
(* Properties of the generator's arithmetic (SpecPred)                     *)
(***************************************************************************)
\* the bytes of one beat, read back in the order its lanes were written
BeatBytes(data, lanes) == [j \in 1..Len(lanes) |-> data[lanes[j] + 1]]

RECURSIVE FlatBytes(_, _)
FlatBytes(beats, lanes) ==
  IF beats = << >> THEN << >>
  ELSE BeatBytes(Head(beats).data, Head(lanes)) \o FlatBytes(Tail(beats), Tail(lanes))

NoLaneTwice(lanes) ==
  \A i \in DOMAIN lanes : \A j \in DOMAIN lanes : i # j => lanes[i] # lanes[j]

LanesBelow(lanes, n) ==
  \A i \in DOMAIN lanes : \A j \in DOMAIN lanes[i] : lanes[i][j] < n

StrobedLanes(beat) == { l \in 0..(DATA_BYTES - 1) : beat.wstrb[l + 1] = 1 }

\* C8: the expected read beats of every generated transaction, concatenated
\* in push order with each beat's lanes in write order, carry k mod 256 at
\* offset k for all (len+1)<<size offsets; no lane is written twice in a
\* beat and every written lane is below the master lane count.
C8_RdBytePattern ==
  pred.phase = "rd" =>
    LET w == pred.walk
        total == BytesTotal(pred.req)
    IN /\ Len(w.lanes) = Len(w.beats)
       /\ LanesBelow(w.lanes, pred.M)
       /\ \A i \in DOMAIN w.lanes : NoLaneTwice(w.lanes[i])
       /\ FlatBytes(w.beats, w.lanes) = [k \in 1..total |-> (k - 1) % 256]

\* a FIXED burst of several beats, each wrapping over more than one lane
C8_Witness ==
  /\ pred.phase = "rd"
  /\ pred.req.burst = FIXED
  /\ pred.req.len = 3
  /\ pred.req.size = 2
  /\ Len(pred.walk.beats) = 4

\* C9: for every generated write the master-side beats and the slave-side
\* beats concatenate to the same bytes: k & 0xFF at every offset k below the
\* last, MASTER_ID & 0xFF at the last; each beat's strobe bits are exactly
\* the lanes that were written.
C9_WrBytePattern ==
  pred.phase = "wr" =>
    LET w == pred.walk
        total == BytesTotal(pred.req)
        expect == [k \in 1..total |->
                     IF k = total THEN pred.MASTER_ID % 256 ELSE (k - 1) % 256]
    IN /\ Len(w.m_lanes) = Len(w.m_beats)
       /\ Len(w.s_lanes) = Len(w.s_beats)
       /\ LanesBelow(w.m_lanes, pred.M)
       /\ LanesBelow(w.s_lanes, pred.S)
       /\ FlatBytes(w.m_beats, w.m_lanes) = expect
       /\ FlatBytes(w.s_beats, w.s_lanes) = expect
       /\ \A i \in DOMAIN w.m_beats :
            StrobedLanes(w.m_beats[i]) = { w.m_lanes[i][j] : j \in DOMAIN w.m_lanes[i] }
       /\ \A i \in DOMAIN w.s_beats :
            StrobedLanes(w.s_beats[i]) = { w.s_lanes[i][j] : j \in DOMAIN w.s_lanes[i] }

\* a downsized write: more slave beats than master beats, the tag in the last
C9_Witness ==
  /\ pred.phase = "wr"
  /\ pred.M > pred.S
  /\ Len(pred.walk.m_beats) = 2
  /\ Len(pred.walk.s_beats) = 4
  /\ pred.MASTER_ID = 1
  /\ pred.walk.s_beats[4].data[2] = 1

\* C10 as stated: with master lanes > slave lanes every slave-side request
\* has size = log2(slave lanes) and
\* len = ((master_len+1) << (master_size - log2(slave lanes))) - 1.
C10_Original ==
  (pred.phase \in {"rd", "wr"} /\ pred.M > pred.S) =>
    /\ pred.s_req.size = my_log2c(pred.S)
    /\ pred.s_req.len =
         ((pred.req.len + 1) * Pow2(pred.req.size - my_log2c(pred.S))) - 1

\* C10 amended: with master lanes > slave lanes, a request whose beat is at
\* least as wide as the slave (2^size >= slave lanes) gets size = log2(slave
\* lanes) and the shifted len; a narrower request keeps its size and len.
C10_SlaveResize ==
  (pred.phase \in {"rd", "wr"} /\ pred.M > pred.S) =>
    IF Pow2(pred.req.size) >= pred.S
      THEN /\ pred.s_req.size = my_log2c(pred.S)
           /\ pred.s_req.len =
                ((pred.req.len + 1) * Pow2(pred.req.size - my_log2c(pred.S))) - 1
      ELSE /\ pred.s_req.size = pred.req.size
           /\ pred.s_req.len = pred.req.len

\* a read whose beats are split: 8-byte beats onto a 2-lane slave
C10_Witness ==
  /\ pred.phase = "rd"
  /\ pred.M = 8 /\ pred.S = 2
  /\ pred.req.size = 3 /\ pred.req.len = 1
  /\ pred.s_req.size = 1 /\ pred.s_req.len = 7

\* the scenario: 4 master lanes, 2 slave lanes, a read of size 2 and len 0
\* at an address aligned to 4
RdScenario ==
  /\ pred.phase = "rd"
  /\ pred.M = 4 /\ pred.S = 2
  /\ pred.req.size = 2 /\ pred.req.len = 0
  /\ pred.req.addr % 4 = 0

\* C11 as stated: in the scenario the read predictor produces two
\* slave-width beats whose concatenated data is [0,1,2,3], the second
\* carrying last.
C11_Original ==
  RdScenario =>
    /\ Len(pred.walk.beats) = 2
    /\ \A i \in DOMAIN pred.walk.lanes : Len(pred.walk.lanes[i]) = pred.S
    /\ FlatBytes(pred.walk.beats, pred.walk.lanes) = <<0, 1, 2, 3>>
    /\ pred.walk.beats[2].last

\* C11 (amended): in the scenario the slave-side request is the size 1,
\* len 1 equivalent (two slave beats), and the predicted response is one
\* master-width beat with bytes 0,1,2,3 in lanes 0..3, carrying last.
C11_RdScenario ==
  RdScenario =>
    /\ pred.s_req.size = 1 /\ pred.s_req.len = 1
    /\ Len(pred.walk.beats) = 1
    /\ pred.walk.lanes = << <<0, 1, 2, 3>> >>
    /\ pred.walk.beats[1].data = <<0, 1, 2, 3, 0, 0, 0, 0>>
    /\ pred.walk.beats[1].last
    /\ pred.walk.beats[1].id = pred.req.id

\* the scenario as an INCR burst to the second region
C11_Witness ==
  /\ RdScenario
  /\ pred.req.burst = INCR
  /\ pred.req.addr >= ADDR_OFFSET
  /\ pred.walk.beats[1].resp = 1

\* C13: every generated transaction has id in [0, AXI_TID_NUM), burst in
\* {FIXED, INCR, WRAP} and size in [1, log2(master lanes)]; size 0 is never
\* generated and the size draw is always from a non-empty range, for every
\* master lane count.
C13_GenRanges ==
  /\ pred.phase \in {"rd", "wr"} =>
       /\ pred.req.id \in 0..(AXI_TID_NUM - 1)
       /\ pred.req.burst \in {FIXED, INCR, WRAP}
       /\ pred.req.size \in 1..my_log2c(pred.M)
       /\ SizeDrawMod(pred.M) > 0
  /\ pred.phase = "trap" => pred.at # "size"

\* len + 1 is a power of two
PowerOfTwo(n) == \E k \in 0..n : Pow2(k) = n

\* C14: every generated len respects the rule of its burst type: WRAP,
\* len+1 a power of two and at most AXI4_MAX_LEN; FIXED, len in
\* 0..AXI4_MAX_LEN; INCR, len in 0..AXI4_MAX_INCR_LEN, or in
\* 0..AXI4_MAX_INCR_LEN/(master lanes / slave lanes) when downsizing.
C14_LenRule ==
  pred.phase \in {"rd", "wr"} =>
    CASE pred.req.burst = WRAP ->
           PowerOfTwo(pred.req.len + 1) /\ pred.req.len + 1 <= AXI4_MAX_LEN
      [] pred.req.burst = FIXED -> pred.req.len \in 0..AXI4_MAX_LEN
      [] pred.req.burst = INCR ->
           IF pred.M > pred.S
             THEN pred.req.len \in 0..(AXI4_MAX_INCR_LEN \div (pred.M \div pred.S))
             ELSE pred.req.len \in 0..AXI4_MAX_INCR_LEN
      [] OTHER -> FALSE

\* C15: with master lanes > slave lanes, at every downsize ratio, an INCR
\* len is drawn from a non-empty range and the slave-side beat count
\* (slave len + 1) never exceeds AXI4_MAX_INCR_LEN.
C15_IncrBounded ==
  /\ (pred.phase \in {"rd", "wr"} /\ pred.M > pred.S /\ pred.req.burst = INCR) =>
       /\ IncrLenMod(pred.M, pred.S) > 0
       /\ pred.s_req.len + 1 <= AXI4_MAX_INCR_LEN
  /\ (pred.phase = "trap" /\ pred.M > pred.S) => pred.at # "len"

\* C21: for equal requests and equal slave lane counts the read generator
\* and the write generator insert the same slave-side size and len.
C21_SameConversion ==
  /\ pred.phase = "rd" =>
       /\ pred.s_req.size = WrSlaveSize(pred.req, pred.S)
       /\ pred.s_req.len = WrSlaveLen(pred.req, pred.S)
  /\ pred.phase = "wr" =>
       /\ pred.s_req.size = RdSlaveSize(pred.req, pred.S)
       /\ pred.s_req.len = RdSlaveLen(pred.req, pred.S)

\* a write whose beats are wider than the slave was converted: slave-wide
\* beats, more of them, as the read generator converts the same request
C21_Witness ==
  /\ pred.phase = "wr"
  /\ Pow2(pred.req.size) > pred.S
  /\ pred.s_req.size = my_log2c(pred.S)
  /\ pred.s_req.len > pred.req.len
  /\ pred.s_req.len = RdSlaveLen(pred.req, pred.S)

\* last is set on the final beat of a sequence and on no other
LastOnlyFinal(beats) ==
  \A i \in DOMAIN beats : beats[i].last = (i = Len(beats))

\* C23: for every generated transaction the read prediction and the
\* master-side write data have len+1 beats, the slave-side write data has
\* (slave len)+1 beats, last is set on the final beat only, and every
\* predicted read beat carries the request's id and resp =
\* mem_map_resolve(request address).
C23_BeatCounts ==
  /\ pred.phase = "rd" =>
       /\ Len(pred.walk.beats) = pred.req.len + 1
       /\ LastOnlyFinal(pred.walk.beats)
       /\ \A i \in DOMAIN pred.walk.beats :
            /\ pred.walk.beats[i].id = pred.req.id
            /\ pred.walk.beats[i].resp = mem_map_resolve(pred.req.addr)
  /\ pred.phase = "wr" =>
       /\ Len(pred.walk.m_beats) = pred.req.len + 1
       /\ Len(pred.walk.s_beats) = pred.s_req.len + 1
       /\ LastOnlyFinal(pred.walk.m_beats)
       /\ LastOnlyFinal(pred.walk.s_beats)

\* a write of three master beats split into six slave beats
C23_Witness ==
  /\ pred.phase = "wr"
  /\ pred.req.len = 2
  /\ Len(pred.walk.m_beats) = 3
  /\ Len(pred.walk.s_beats) = 6
  /\ pred.walk.s_beats[6].last /\ ~pred.walk.s_beats[5].last

(***************************************************************************)
(* SpecMap: mem_map_resolve called twice on one address, over every        *)
(* address map of SLAVE_NUM regions <<low, high>> (overlapping, empty and  *)
(* partial maps included)                                                  *)
(***************************************************************************)
MapRegions == { <<lo, hi>> : lo \in 0..MaxMapAddr, hi \in 0..MaxMapAddr }

MapInputs ==
  { [phase |-> "in", map |-> <<r0, r1>>, addr |-> a] :
      r0 \in MapRegions, r1 \in MapRegions, a \in 0..MaxMapAddr }

\* one call: the index returned, or the assertion of line 585
ResolveOutcome(map, addr) ==
  LET i == ResolveFrom(map, addr, 0)
  IN [ret |-> i, exit |-> IF i = NotFound THEN "assert" ELSE "return"]

ResolveFirst ==
  /\ map_call.phase = "in"
  /\ map_call' = [phase |-> "once", map |-> map_call.map, addr |-> map_call.addr,
                  first |-> ResolveOutcome(map_call.map, map_call.addr)]
  /\ UNCHANGED <<sbVars, pred, slaveVars, pay, mst, ar_out, aw_out, w_out, inj, vfy, blk, stop_gen>>

\* a second call, when the first one returned
ResolveAgain ==
  /\ map_call.phase = "once"
  /\ map_call.first.exit = "return"
  /\ map_call' = [phase |-> "twice", map |-> map_call.map, addr |-> map_call.addr,
                  first |-> map_call.first,
                  second |-> ResolveOutcome(map_call.map, map_call.addr)]
  /\ UNCHANGED <<sbVars, pred, slaveVars, pay, mst, ar_out, aw_out, w_out, inj, vfy, blk, stop_gen>>

NextMap == ResolveFirst \/ ResolveAgain

InitMapSpec ==
  /\ InitSb
  /\ gen_left = 0
  /\ pred = PredIdle
  /\ InitSlave
  /\ map_call \in MapInputs
  /\ InitPay /\ InitMst /\ InitInj /\ InitVfy /\ InitBlk /\ InitStop

SpecMap == InitMapSpec /\ [][NextMap]_vars

\* the indices whose region holds addr, bounds included
RegionsHolding(map, addr) ==
  { i \in 0..(Len(map) - 1) : map[i + 1][1] <= addr /\ addr <= map[i + 1][2] }

\* C12: mem_map_resolve returns the smallest index whose region holds the
\* address, both bounds inclusive, the lowest index winning on overlap; a
\* second call on the same address and map returns the same index; with no
\* region holding the address it ends in the fatal assertion and returns
\* no valid index.
C12_Resolve ==
  /\ map_call.phase \in {"once", "twice"} =>
       LET hits == RegionsHolding(map_call.map, map_call.addr)
       IN IF hits = {}
            THEN /\ map_call.first.exit = "assert"
                 /\ map_call.first.ret \notin 0..(Len(map_call.map) - 1)
            ELSE /\ map_call.first.exit = "return"
                 /\ map_call.first.ret \in hits
                 /\ \A i \in hits : map_call.first.ret <= i
  /\ map_call.phase = "twice" => map_call.second = map_call.first

\* two different regions hold the address, which is the upper bound of the
\* first: both calls returned index 0
C12_Witness ==
  /\ map_call.phase = "twice"
  /\ RegionsHolding(map_call.map, map_call.addr) = {0, 1}
  /\ map_call.map[1] # map_call.map[2]
  /\ map_call.addr = map_call.map[1][2]
  /\ map_call.second.ret = 0

Without(q, j) == SubSeq(q, 1, j - 1) \o SubSeq(q, j + 1, Len(q))

\* a call of gen_new_wr_trans that has pushed the order queue (line 339) and
\* has not yet counted the transaction (line 419)
WrPending(at) == IF at = "wr_unlock" THEN 1 ELSE 0

\* C20: verify_rd_resp leaves sb_rd_order_q as it was when last is clear or
\* no entry has the response's id, and removes exactly the oldest entry of
\* that id when last is set; verify_wr_resp removes exactly the oldest entry
\* of the id whenever there is one.  In every step the order queue's length
\* changes by the transactions generated minus the terminal responses whose
\* id was found.
C20_OrderFrame ==
  [][ \A m \in Masters :
        LET rq == sb_rd_order_q[m]
            wq == sb_wr_order_q[m]
            jr == OldestSameId(rq, loc[m].rcv.id)
            jw == OldestSameId(wq, loc[m].rcv.id)
            rdTerminal == VrBodyStep(m) /\ loc[m].rcv.last /\ jr > 0
            wrTerminal == VwBodyStep(m) /\ jw > 0
        IN /\ VrBodyStep(m) =>
                /\ sb_rd_order_q'[m] = (IF rdTerminal THEN Without(rq, jr) ELSE rq)
                /\ sb_wr_order_q'[m] = wq
           /\ VwBodyStep(m) =>
                /\ sb_wr_order_q'[m] = (IF wrTerminal THEN Without(wq, jw) ELSE wq)
                /\ sb_rd_order_q'[m] = rq
           /\ Len(sb_rd_order_q'[m]) - Len(rq) =
                (cnt'[m].rd_trans_generated - cnt[m].rd_trans_generated)
                  - (IF rdTerminal THEN 1 ELSE 0)
           /\ (Len(sb_wr_order_q'[m]) - WrPending(pc'[m])) - (Len(wq) - WrPending(pc[m])) =
                (cnt'[m].wr_trans_generated - cnt[m].wr_trans_generated)
                  - (IF wrTerminal THEN 1 ELSE 0)
    ]_vars

\* a beat that is not the last of its read was accepted and the order entry
\* of its id is still in the queue, after an earlier write response of the
\* same master took its entry out
C20_Witness ==
  \E m \in Masters :
    /\ pc[m] = "vr_unlock"
    /\ ~loc[m].rcv.last
    /\ loc[m].reorder = 0
    /\ \E j \in DOMAIN sb_rd_order_q[m] : sb_rd_order_q[m][j] = loc[m].sb_ord_req
    /\ cnt[m].wr_resp_ej = 1
    /\ sb_wr_order_q[m] = << >>

\* the steps that run the draw of gen_new_rd_trans / gen_new_wr_trans
RdDrawStep(m) == pc[m] = "idle" /\ pc'[m] = "rd_lock1"
WrDrawStep(m) == pc[m] = "wr_gen" /\ pc'[m] # "wr_gen"

\* C24: each call of gen_new_rd_trans (gen_new_wr_trans) gives the new
\* transaction the address gen_rd_addr (gen_wr_addr) or that plus 0x10000,
\* with the counter's value from before the call, and advances the counter
\* by the master lane count; no other step changes the counter.
C24_AddrCounter ==
  [][ \A m \in Masters :
        /\ RdDrawStep(m) =>
             /\ Len(stored_rd_trans'[m]) = Len(stored_rd_trans[m]) + 1
             /\ stored_rd_trans'[m][Len(stored_rd_trans'[m])].addr \in
                  {cnt[m].gen_rd_addr, cnt[m].gen_rd_addr + 65536}
             /\ cnt'[m].gen_rd_addr = cnt[m].gen_rd_addr + RD_M_LANES
        /\ WrDrawStep(m) =>
             /\ Len(stored_wr_trans'[m]) = Len(stored_wr_trans[m]) + 1
             /\ stored_wr_trans'[m][Len(stored_wr_trans'[m])].addr \in
                  {cnt[m].gen_wr_addr, cnt[m].gen_wr_addr + 65536}
             /\ cnt'[m].gen_wr_addr = cnt[m].gen_wr_addr + WR_M_LANES
        /\ ~RdDrawStep(m) => cnt'[m].gen_rd_addr = cnt[m].gen_rd_addr
        /\ ~WrDrawStep(m) => cnt'[m].gen_wr_addr = cnt[m].gen_wr_addr
    ]_vars

\* a master's first read took the read counter plus the offset and its first
\* write the write counter itself; each counter has advanced by the lanes
C24_Witness ==
  \E m \in Masters :
    /\ Len(stored_rd_trans[m]) = 1
    /\ stored_rd_trans[m][1].addr = 65536
    /\ cnt[m].gen_rd_addr = RD_M_LANES
    /\ Len(stored_wr_trans[m]) = 1
    /\ stored_wr_trans[m][1].addr = 0
    /\ cnt[m].gen_wr_addr = WR_M_LANES

\* the error counters of a master, together
ErrorCount(c) == c.error_sb_rd_resp_not_found + c.error_sb_wr_resp_not_found

\* C26: whenever verify_rd_resp / verify_wr_resp ends in a fatal outcome
\* (content not found, reorder status 2, reorder status 1) an error counter
\* has gone up by one before the assertion, whatever the prediction and
\* order queues hold, the empty queue included.
C26_ErrorCounted ==
  [][ \A m \in Masters :
        ((VrBodyStep(m) \/ VwBodyStep(m)) /\ loc'[m].outcome # "ok") =>
          ErrorCount(cnt'[m]) = ErrorCount(cnt[m]) + 1
    ]_vars

\* a step of gen_new_wr_trans by master m (lines 317, 318-415, 417-419)
WrCallStep(m) ==
  \/ pc[m] = "idle" /\ pc'[m] = "wr_gen"
  \/ pc[m] = "wr_gen" /\ pc'[m] # "wr_gen"
  \/ pc[m] = "wr_unlock" /\ pc'[m] # "wr_unlock"

\* the prediction queue of master m holds an entry equal to the response
WrPredicted(m, rsp) ==
  \E j \in DOMAIN sb_wr_resp_q[m] : eq_wr_resp(sb_wr_resp_q[m][j].dut_msg, rsp)

\* C28: a step of gen_new_wr_trans leaves sb_wr_resp_q (and the read queues)
\* as they were and only lengthens the injection queues and the write order
\* queue; an entry is added to sb_wr_resp_q only by a step of no master; and
\* verify_wr_resp reaches its success outcome only for a response with an
\* equal entry in sb_wr_resp_q[MASTER_ID], which the call removes.
C28_WrRespFrame ==
  [][ \A m \in Masters :
        /\ WrCallStep(m) =>
             /\ UNCHANGED <<sb_wr_resp_q, sb_rd_req_q, sb_rd_resp_q,
                            sb_rd_order_q, stored_rd_trans>>
             /\ Len(stored_wr_trans'[m]) >= Len(stored_wr_trans[m])
             /\ Len(stored_wr_data'[m]) >= Len(stored_wr_data[m])
             /\ Len(sb_wr_order_q'[m]) >= Len(sb_wr_order_q[m])
        /\ Len(sb_wr_resp_q'[m]) > Len(sb_wr_resp_q[m]) => pc' = pc
        /\ (VwBodyStep(m) /\ pc'[m] = "vw_unlock") =>
             /\ WrPredicted(m, loc[m].rcv)
             /\ Len(sb_wr_resp_q'[m]) = Len(sb_wr_resp_q[m]) - 1
    ]_vars

\* master 1 generated one write, the slave side predicted its response, and
\* verify_wr_resp accepted it: the prediction queue is empty again
C28_Witness ==
  /\ pc[1] = "vw_unlock" /\ loc[1].outcome = "ok"
  /\ cnt[1].wr_trans_generated = 1
  /\ cnt[1].wr_resp_count = 1
  /\ sb_wr_resp_q[1] = << >>
  /\ sb_wr_order_q[1] = << >>

(***************************************************************************)
(* SpecFair: Spec with the scheduler's guarantee that a master inside a    *)
(* call goes on whenever it can (a runnable thread is run; a thread in     *)
(* lock() is made runnable by unlock()).                                   *)
(***************************************************************************)
\* the steps of master m after the entry of a call: taking and releasing the
\* lock, the push between the two sections of a read, and the verifications
Continue(m) ==
  \/ RdLock1(m) \/ RdUnlock1(m) \/ RdPushOrder(m) \/ RdLock2(m) \/ RdUnlock2(m)
  \/ WrUnlock(m)
  \/ VrBody(m) \/ VrUnlock(m)
  \/ VwBody(m) \/ VwUnlock(m)

\* the positions of the steps that fill the scoreboard inside a locked
\* section (RdPushReq, RdPushBeats, WrGen); each is enabled exactly at its
\* position while the run has not been ended
FillPcs == {"rd_req", "rd_beats", "wr_gen"}
FillEnabled(m) == ~halted /\ pc[m] \in FillPcs
FillStep(m) == pc[m] \in FillPcs /\ pc'[m] # pc[m]

\* weak fairness of Continue(m), and weak fairness of the filling steps
\* written out with their enabling condition
Fairness(m) ==
  /\ WF_vars(Continue(m))
  /\ ([]<>(~FillEnabled(m)) \/ []<><<FillStep(m)>>_vars)

SpecFair == Init /\ [][Next]_vars /\ \A m \in Masters : Fairness(m)

\* a master at a tick boundary, and a master inside sb_lock->lock()
AtTick(m) == pc[m] = "idle"
InLock(m) == pc[m] \in {"rd_lock1", "rd_lock2"}

\* C27: a master at a tick boundary, or waiting in lock(), holds no lock:
\* every call that returned has released what it acquired; and a master
\* waiting in lock() gets the lock, unless a fatal assertion ends the run.
C27_NoSuspendHolding ==
  /\ [](\A m \in Masters : (AtTick(m) \/ InLock(m)) => sb_lock # m)
  /\ \A m \in Masters : [](InLock(m) => <>(sb_lock = m \/ halted))

\* master 0 has got the lock for the second section of a read, and master 1,
\* which generated a whole write under the same lock, is back at its tick
C27_Witness ==
  /\ pc[0] = "rd_beats" /\ sb_lock = 0
  /\ pc[1] = "idle"
  /\ cnt[1].wr_trans_generated = 1
  /\ sb_wr_order_q[1] # << >>

(***************************************************************************)
(* SpecPayload: the default constructors of the four payload types, over   *)
(* every configuration Cfg of the optional fields                          *)
(***************************************************************************)
\* a field of width 0 has type EmptyField: absent from storage
EmptyField == -1
\* a present field no statement has assigned yet
Uninit == -2

Flag == {0, 1}

PayCfgs ==
  { [idWidth |-> 2 * c[1], useWriteResponses |-> c[2], useBurst |-> c[3],
     useFixedOrWrapBurst |-> c[4], useVariableBeatSize |-> c[5], useLast |-> c[6],
     useCache |-> c[7], useWriteStrobes |-> c[8], aUserWidth |-> c[9],
     wUserWidth |-> c[10], bUserWidth |-> c[11], rUserWidth |-> c[12],
     useACE |-> c[13]] :
      c \in Flag \X Flag \X Flag \X Flag \X Flag \X Flag \X Flag \X Flag \X
            Flag \X Flag \X Flag \X Flag \X Flag }

\* the enum of widths, lines 44-73
Widths(Cfg) ==
  [DATA    |-> 8 * DATA_BYTES,
   ADDR    |-> 32,
   ID      |-> Cfg.idWidth,
   BID     |-> IF Cfg.useWriteResponses = 0 THEN 0 ELSE Cfg.idWidth,
   ALEN    |-> IF Cfg.useBurst # 0 THEN my_log2c(AXI4_MAX_LEN) ELSE 0,
   ASIZE   |-> IF Cfg.useVariableBeatSize # 0 THEN 3 ELSE 0,
   LAST    |-> IF Cfg.useLast # 0 THEN 1 ELSE 0,
   CACHE   |-> IF Cfg.useCache # 0 THEN 4 ELSE 0,
   BURST   |-> IF Cfg.useBurst # 0 /\ Cfg.useFixedOrWrapBurst # 0 THEN 2 ELSE 0,
   WSTRB   |-> IF Cfg.useWriteStrobes # 0 THEN DATA_BYTES ELSE 0,
   RESP    |-> IF Cfg.useACE # 0 THEN 4 ELSE 2,
   AUSER   |-> Cfg.aUserWidth,
   WUSER   |-> Cfg.wUserWidth,
   BUSER   |-> IF Cfg.useWriteResponses = 0 THEN 0 ELSE Cfg.bUserWidth,
   RUSER   |-> Cfg.rUserWidth,
   SNOOP   |-> IF Cfg.useACE # 0 THEN 4 ELSE 0,
   DOMAIN_ |-> IF Cfg.useACE # 0 THEN 2 ELSE 0,
   BARRIER |-> IF Cfg.useACE # 0 THEN 2 ELSE 0,
   UNIQUE  |-> IF Cfg.useACE # 0 THEN 1 ELSE 0]

\* a member of the given width after the constructor body: absent, left
\* unassigned, or holding the assigned value
Field(width, assigned, value) ==
  IF width = 0 THEN EmptyField ELSE IF assigned THEN value ELSE Uninit

AllOnesNone(width) == 0

\* ~0 assigned to an unsigned field of this width
AllOnes(width) == Pow2(width) - 1

AddrPayloadCtor(W) ==
  [id      |-> Field(W.ID, W.ID > 0, 0),
   addr    |-> Field(W.ADDR, TRUE, 0),
   len     |-> Field(W.ALEN, W.ALEN > 0, 0),
   size    |-> Field(W.ASIZE, W.ASIZE > 0, 0),
   burst   |-> Field(W.BURST, W.BURST > 0, 0),
   cache   |-> Field(W.CACHE, W.CACHE > 0, 0),
   auser   |-> Field(W.AUSER, W.AUSER > 0, 0),
   snoop   |-> Field(W.SNOOP, W.SNOOP > 0, 0),
   domain  |-> Field(W.DOMAIN_, W.DOMAIN_ > 0, 0),
   barrier |-> Field(W.BARRIER, W.BARRIER > 0, 0),
   unique  |-> Field(W.UNIQUE, W.UNIQUE > 0, 0)]

ReadPayloadCtor(W) ==
  [id    |-> Field(W.ID, W.ID > 0, 0),
   data  |-> Field(W.DATA, TRUE, 0),
   resp  |-> Field(W.RESP, TRUE, 0),
   last  |-> Field(W.LAST, W.LAST > 0, 0),
   ruser |-> Field(W.RUSER, W.RUSER > 0, 0)]

\* id has width BID_WIDTH; its assignment is guarded by ID_WIDTH
WRespPayloadCtor(W) ==
  [id    |-> Field(W.BID, W.ID > 0, 0),
   resp  |-> Field(W.RESP, TRUE, 0),
   buser |-> Field(W.BUSER, W.BUSER > 0, 0)]

WritePayloadCtor(W) ==
  [data  |-> Field(W.DATA, TRUE, 0),
   last  |-> Field(W.LAST, W.LAST > 0, 0),
   wstrb |-> Field(W.WSTRB, W.WSTRB > 0, AllOnes(W.WSTRB)),
   wuser |-> Field(W.WUSER, W.WUSER > 0, 0)]

Built(type, p) == [phase |-> "built", Cfg |-> pay.Cfg, type |-> type, p |-> p]

ConstructAddr ==
  /\ pay.phase = "in"
  /\ pay' = Built("AddrPayload", AddrPayloadCtor(Widths(pay.Cfg)))
  /\ UNCHANGED <<sbVars, pred, slaveVars, map_call, mst, ar_out, aw_out, w_out, inj, vfy, blk, stop_gen>>

ConstructRead ==
  /\ pay.phase = "in"
  /\ pay' = Built("ReadPayload", ReadPayloadCtor(Widths(pay.Cfg)))
  /\ UNCHANGED <<sbVars, pred, slaveVars, map_call, mst, ar_out, aw_out, w_out, inj, vfy, blk, stop_gen>>

ConstructWResp ==
  /\ pay.phase = "in"
  /\ pay' = Built("WRespPayload", WRespPayloadCtor(Widths(pay.Cfg)))
  /\ UNCHANGED <<sbVars, pred, slaveVars, map_call, mst, ar_out, aw_out, w_out, inj, vfy, blk, stop_gen>>

ConstructWrite ==
  /\ pay.phase = "in"
  /\ pay' = Built("WritePayload", WritePayloadCtor(Widths(pay.Cfg)))
  /\ UNCHANGED <<sbVars, pred, slaveVars, map_call, mst, ar_out, aw_out, w_out, inj, vfy, blk, stop_gen>>

NextPayload == ConstructAddr \/ ConstructRead \/ ConstructWResp \/ ConstructWrite

InitPayloadSpec ==
  /\ InitSb
  /\ gen_left = 0
  /\ pred = PredIdle
  /\ InitSlave
  /\ pay \in { [phase |-> "in", Cfg |-> c] : c \in PayCfgs }
  /\ InitMap /\ InitMst /\ InitInj /\ InitVfy /\ InitBlk /\ InitStop

SpecPayload == InitPayloadSpec /\ [][NextPayload]_vars

\* the fields of a payload that are present
Present(p) == { f \in DOMAIN p : p[f] # EmptyField }

\* C18 as stated: after default construction every present field of every
\* payload type is 0.
C18_Original ==
  pay.phase = "built" => \A f \in Present(pay.p) : pay.p[f] = 0

\* C18 (amended): after default construction every present field is 0,
\* except WritePayload's wstrb, which has all its bits set.
C18_CtorValues ==
  pay.phase = "built" =>
    \A f \in Present(pay.p) :
      IF pay.type = "WritePayload" /\ f = "wstrb"
        THEN pay.p[f] = Pow2(Widths(pay.Cfg).WSTRB) - 1
        ELSE pay.p[f] = 0

\* a WritePayload with strobes, last and user bits, built with wstrb all ones
C18_Witness ==
  /\ pay.phase = "built"
  /\ pay.type = "WritePayload"
  /\ Present(pay.p) = {"data", "last", "wstrb", "wuser"}
  /\ pay.p.wstrb = 255
  /\ pay.p.last = 0

(***************************************************************************)
(* SpecMaster: the blocking operations read::master::query and             *)
(* write::master::write against the blocking slave ports (wread, bwrite,   *)
(* aread, rwrite).  A blocking Push waits for room in the channel, a       *)
(* blocking Pop for a message.  mst.trace lists the channel operations of  *)
(* the call in progress (of the last call, between calls).                 *)
(***************************************************************************)
MstAddrs == {0, 1}
MstData  == {0, 1}
MstResps == {0, 1}

WriteStepsDataFirst == <<"push_w", "push_aw", "pop_b">>

\* write: aw.Push(addr); w.Push(data); return b.Pop();
WriteSteps == <<"push_aw", "push_w", "pop_b">>

\* query: ar.Push(addr); return r.Pop();
QuerySteps == <<"push_ar", "pop_r">>

StepsOf(op) == IF op = "write" THEN WriteSteps ELSE QuerySteps

MstIdle ==
  [pc |-> "idle", op |-> "none", step |-> 0, addr |-> 0, data |-> 0, ret |-> 0,
   trace |-> << >>, calls |-> 0,
   aw |-> << >>, w |-> << >>, b |-> << >>, ar |-> << >>, r |-> << >>,
   ws |-> [pc |-> "wread_aw", addr |-> 0, data |-> 0],
   rs |-> [pc |-> "aread", addr |-> 0],
   pushed |-> [aw |-> 0, w |-> 0, ar |-> 0], popped |-> [b |-> 0, r |-> 0],
   done |-> [write |-> 0, query |-> 0]]

\* the call write(addr, data) is entered
CallWrite ==
  /\ mst.pc = "idle" /\ mst.calls < MaxCalls
  /\ \E addr \in MstAddrs, data \in MstData :
       mst' = [mst EXCEPT !.pc = "run", !.op = "write", !.step = 1, !.addr = addr,
                          !.data = data, !.ret = 0, !.trace = << >>, !.calls = @ + 1]
  /\ UNCHANGED <<sbVars, pred, slaveVars, map_call, pay, ar_out, aw_out, w_out, inj, vfy, blk, stop_gen>>

\* the call query(addr) is entered
CallQuery ==
  /\ mst.pc = "idle" /\ mst.calls < MaxCalls
  /\ \E addr \in MstAddrs :
       mst' = [mst EXCEPT !.pc = "run", !.op = "query", !.step = 1, !.addr = addr,
                          !.data = 0, !.ret = 0, !.trace = << >>, !.calls = @ + 1]
  /\ UNCHANGED <<sbVars, pred, slaveVars, map_call, pay, ar_out, aw_out, w_out, inj, vfy, blk, stop_gen>>

\* the call's next channel operation
MstAt(act) == mst.pc = "run" /\ StepsOf(mst.op)[mst.step] = act

\* after a channel operation: the next statement, or the return
Advance(m1, act, val) ==
  LET m2 == [m1 EXCEPT !.trace = Append(@, [act |-> act, val |-> val])]
  IN IF m1.step = Len(StepsOf(m1.op))
       THEN [m2 EXCEPT !.pc = "idle", !.step = 0,
                       !.done = [@ EXCEPT ![m1.op] = @ + 1]]
       ELSE [m2 EXCEPT !.step = @ + 1]

PushAW ==
  /\ MstAt("push_aw") /\ Len(mst.aw) < ChanCap
  /\ mst' = Advance([mst EXCEPT !.aw = Append(@, mst.addr), !.pushed.aw = @ + 1],
                    "push_aw", mst.addr)
  /\ UNCHANGED <<sbVars, pred, slaveVars, map_call, pay, ar_out, aw_out, w_out, inj, vfy, blk, stop_gen>>

PushW ==
  /\ MstAt("push_w") /\ Len(mst.w) < ChanCap
  /\ mst' = Advance([mst EXCEPT !.w = Append(@, mst.data), !.pushed.w = @ + 1],
                    "push_w", mst.data)
  /\ UNCHANGED <<sbVars, pred, slaveVars, map_call, pay, ar_out, aw_out, w_out, inj, vfy, blk, stop_gen>>

PopB ==
  /\ MstAt("pop_b") /\ mst.b # << >>
  /\ mst' = Advance([mst EXCEPT !.b = Tail(@), !.ret = Head(mst.b), !.popped.b = @ + 1],
                    "pop_b", Head(mst.b))
  /\ UNCHANGED <<sbVars, pred, slaveVars, map_call, pay, ar_out, aw_out, w_out, inj, vfy, blk, stop_gen>>

PushAR ==
  /\ MstAt("push_ar") /\ Len(mst.ar) < ChanCap
  /\ mst' = Advance([mst EXCEPT !.ar = Append(@, mst.addr), !.pushed.ar = @ + 1],
                    "push_ar", mst.addr)
  /\ UNCHANGED <<sbVars, pred, slaveVars, map_call, pay, ar_out, aw_out, w_out, inj, vfy, blk, stop_gen>>

PopR ==
  /\ MstAt("pop_r") /\ mst.r # << >>
  /\ mst' = Advance([mst EXCEPT !.r = Tail(@), !.ret = Head(mst.r), !.popped.r = @ + 1],
                    "pop_r", Head(mst.r))
  /\ UNCHANGED <<sbVars, pred, slaveVars, map_call, pay, ar_out, aw_out, w_out, inj, vfy, blk, stop_gen>>

\* write::slave::wread: addr = aw.Pop();
SlaveWreadAW ==
  /\ mst.pc # "off" /\ mst.ws.pc = "wread_aw" /\ mst.aw # << >>
  /\ mst' = [mst EXCEPT !.aw = Tail(@),
                        !.ws = [pc |-> "wread_w", addr |-> Head(mst.aw), data |-> 0]]
  /\ UNCHANGED <<sbVars, pred, slaveVars, map_call, pay, ar_out, aw_out, w_out, inj, vfy, blk, stop_gen>>

\* write::slave::wread: data = w.Pop();
SlaveWreadW ==
  /\ mst.pc # "off" /\ mst.ws.pc = "wread_w" /\ mst.w # << >>
  /\ mst' = [mst EXCEPT !.w = Tail(@),
                        !.ws = [@ EXCEPT !.pc = "bwrite", !.data = Head(mst.w)]]
  /\ UNCHANGED <<sbVars, pred, slaveVars, map_call, pay, ar_out, aw_out, w_out, inj, vfy, blk, stop_gen>>

\* write::slave::bwrite: b.Push(resp), with the response the slave chose
SlaveBwrite ==
  /\ mst.pc # "off" /\ mst.ws.pc = "bwrite" /\ Len(mst.b) < ChanCap
  /\ \E resp \in MstResps :
       mst' = [mst EXCEPT !.b = Append(@, [addr |-> mst.ws.addr, resp |-> resp]),
                          !.ws = [pc |-> "wread_aw", addr |-> 0, data |-> 0]]
  /\ UNCHANGED <<sbVars, pred, slaveVars, map_call, pay, ar_out, aw_out, w_out, inj, vfy, blk, stop_gen>>

\* read::slave::aread: ar.Pop()
SlaveAread ==
  /\ mst.pc # "off" /\ mst.rs.pc = "aread" /\ mst.ar # << >>
  /\ mst' = [mst EXCEPT !.ar = Tail(@), !.rs = [pc |-> "rwrite", addr |-> Head(mst.ar)]]
  /\ UNCHANGED <<sbVars, pred, slaveVars, map_call, pay, ar_out, aw_out, w_out, inj, vfy, blk, stop_gen>>

\* read::slave::rwrite: r.Push(data), with the data the slave chose
SlaveRwrite ==
  /\ mst.pc # "off" /\ mst.rs.pc = "rwrite" /\ Len(mst.r) < ChanCap
  /\ \E data \in MstData :
       mst' = [mst EXCEPT !.r = Append(@, [addr |-> mst.rs.addr, data |-> data]),
                          !.rs = [pc |-> "aread", addr |-> 0]]
  /\ UNCHANGED <<sbVars, pred, slaveVars, map_call, pay, ar_out, aw_out, w_out, inj, vfy, blk, stop_gen>>

NextMaster ==
  \/ CallWrite \/ PushAW \/ PushW \/ PopB
  \/ CallQuery \/ PushAR \/ PopR
  \/ SlaveWreadAW \/ SlaveWreadW \/ SlaveBwrite
  \/ SlaveAread \/ SlaveRwrite

InitMasterSpec ==
  /\ InitSb
  /\ gen_left = 0
  /\ pred = PredIdle
  /\ InitSlave
  /\ mst = MstIdle
  /\ InitMap /\ InitPay /\ InitInj /\ InitVfy /\ InitBlk /\ InitStop

SpecMaster == InitMasterSpec /\ [][NextMaster]_vars

\* the operations of a trace, and the order C16 states for each call
ActsOf(trace) == [i \in DOMAIN trace |-> trace[i].act]

StatedOrder(op) ==
  IF op = "write" THEN <<"push_aw", "push_w", "pop_b">> ELSE <<"push_ar", "pop_r">>

\* operations of the call in progress that are already counted
InCall(act) ==
  IF mst.pc = "run" /\ \E i \in DOMAIN mst.trace : mst.trace[i].act = act THEN 1 ELSE 0

\* C16: write(addr, data) pushes addr on AW, then data on W, then pops B and
\* returns the popped response; query(addr) pushes addr on AR, then pops R
\* and returns it.  Each call does each of its operations exactly once, and
\* is still inside the call until the pop has taken a response.
C16_BlockingOrder ==
  mst.op # "none" =>
    LET order == StatedOrder(mst.op)
        n == Len(mst.trace)
    IN /\ n <= Len(order)
       /\ ActsOf(mst.trace) = SubSeq(order, 1, n)
       /\ (mst.pc = "idle") = (n = Len(order))
       /\ n >= 1 => mst.trace[1].val = mst.addr
       /\ (mst.op = "write" /\ n >= 2) => mst.trace[2].val = mst.data
       /\ mst.pc = "idle" => mst.ret = mst.trace[n].val
       /\ mst.pushed.aw = mst.done.write + InCall("push_aw")
       /\ mst.pushed.w = mst.done.write + InCall("push_w")
       /\ mst.popped.b = mst.done.write
       /\ mst.pushed.ar = mst.done.query + InCall("push_ar")
       /\ mst.popped.r = mst.done.query
       /\ mst.pc = "idle" => mst.ret.addr = mst.addr

\* a write has returned the response the slave pushed for it, after an
\* earlier query returned
C16_Witness ==
  /\ mst.pc = "idle" /\ mst.op = "write"
  /\ ActsOf(mst.trace) = <<"push_aw", "push_w", "pop_b">>
  /\ mst.ret = [addr |-> 1, resp |-> 1]
  /\ mst.done = [write |-> 1, query |-> 1]

(***************************************************************************)
(* SpecInj: the injection part of do_cycle for one master, with its        *)
(* generators and the interconnect taking messages off AR, AW and W.       *)
(* A tick's attempts are independent of one another, so they are taken in  *)
(* any order.  inj.retry holds the element a failed push offered;          *)
(* inj.*_pushed list what each port has accepted.                          *)
(***************************************************************************)
\* the master whose ports ar_out, aw_out, w_out are
InjMaster == 0

\* PushNB succeeds when the channel has room
PushNB(chan) == Len(chan) < ChanCap

AfterPopKeep(q) == q

AfterPopAll(q) == << >>

\* stored_*.pop() after a successful push
AfterPop(q) == Tail(q)

\* lines 181-189
InjectAR ==
  /\ ~halted /\ pc[InjMaster] = "idle"
  /\ stored_rd_trans[InjMaster] # << >>
  /\ LET tmp_ar == Head(stored_rd_trans[InjMaster])
     IN IF PushNB(ar_out)
          THEN /\ ar_out' = Append(ar_out, tmp_ar)
               /\ stored_rd_trans' = [stored_rd_trans EXCEPT ![InjMaster] = AfterPop(@)]
               /\ inj' = [inj EXCEPT !.rd_trans_inj = @ + 1, !.retry.ar = << >>,
                                     !.ar_pushed = Append(@, tmp_ar)]
          ELSE /\ inj' = [inj EXCEPT !.retry.ar = <<tmp_ar>>]
               /\ UNCHANGED <<ar_out, stored_rd_trans>>
  /\ UNCHANGED <<pc, sb_lock, sb_rd_req_q, sb_rd_resp_q, sb_wr_req_q, sb_wr_data_q,
                 sb_wr_resp_q, sb_rd_order_q, sb_wr_order_q, stored_wr_trans,
                 stored_wr_data, cnt, loc, halted, gen_left, pred, slaveVars,
                 map_call, pay, mst, aw_out, w_out, vfy, blk, stop_gen>>

\* lines 191-199
InjectAW ==
  /\ ~halted /\ pc[InjMaster] = "idle"
  /\ stored_wr_trans[InjMaster] # << >>
  /\ LET tmp_aw == Head(stored_wr_trans[InjMaster])
     IN IF PushNB(aw_out)
          THEN /\ aw_out' = Append(aw_out, tmp_aw)
               /\ stored_wr_trans' = [stored_wr_trans EXCEPT ![InjMaster] = AfterPop(@)]
               /\ inj' = [inj EXCEPT !.wr_trans_inj = @ + 1, !.retry.aw = << >>,
                                     !.aw_pushed = Append(@, tmp_aw)]
          ELSE /\ inj' = [inj EXCEPT !.retry.aw = <<tmp_aw>>]
               /\ UNCHANGED <<aw_out, stored_wr_trans>>
  /\ UNCHANGED <<pc, sb_lock, sb_rd_req_q, sb_rd_resp_q, sb_wr_req_q, sb_wr_data_q,
                 sb_wr_resp_q, sb_rd_order_q, sb_wr_order_q, stored_rd_trans,
                 stored_wr_data, cnt, loc, halted, gen_left, pred, slaveVars,
                 map_call, pay, mst, ar_out, w_out, vfy, blk, stop_gen>>

\* lines 201-209
InjectW ==
  /\ ~halted /\ pc[InjMaster] = "idle"
  /\ stored_wr_data[InjMaster] # << >>
  /\ LET tmp_w == Head(stored_wr_data[InjMaster])
     IN IF PushNB(w_out)
          THEN /\ w_out' = Append(w_out, tmp_w)
               /\ stored_wr_data' = [stored_wr_data EXCEPT ![InjMaster] = AfterPop(@)]
               /\ inj' = [inj EXCEPT !.wr_data_inj = @ + 1, !.retry.w = << >>,
                                     !.w_pushed = Append(@, tmp_w)]
          ELSE /\ inj' = [inj EXCEPT !.retry.w = <<tmp_w>>]
               /\ UNCHANGED <<w_out, stored_wr_data>>
  /\ UNCHANGED <<pc, sb_lock, sb_rd_req_q, sb_rd_resp_q, sb_wr_req_q, sb_wr_data_q,
                 sb_wr_resp_q, sb_rd_order_q, sb_wr_order_q, stored_rd_trans,
                 stored_wr_trans, cnt, loc, halted, gen_left, pred, slaveVars,
                 map_call, pay, mst, ar_out, aw_out, vfy, blk, stop_gen>>

\* the interconnect takes the oldest message of a channel
DrainAR ==
  /\ ar_out # << >>
  /\ ar_out' = Tail(ar_out)
  /\ UNCHANGED <<sbVars, pred, slaveVars, map_call, pay, mst, aw_out, w_out, inj, vfy, blk, stop_gen>>

DrainAW ==
  /\ aw_out # << >>
  /\ aw_out' = Tail(aw_out)
  /\ UNCHANGED <<sbVars, pred, slaveVars, map_call, pay, mst, ar_out, w_out, inj, vfy, blk, stop_gen>>

DrainW ==
  /\ w_out # << >>
  /\ w_out' = Tail(w_out)
  /\ UNCHANGED <<sbVars, pred, slaveVars, map_call, pay, mst, ar_out, aw_out, inj, vfy, blk, stop_gen>>

NextInj ==
  \/ GenRdDraw(InjMaster) \/ RdLock1(InjMaster) \/ RdPushReq(InjMaster)
  \/ RdUnlock1(InjMaster) \/ RdPushOrder(InjMaster) \/ RdLock2(InjMaster)
  \/ RdPushBeats(InjMaster) \/ RdUnlock2(InjMaster)
  \/ WrLock(InjMaster) \/ WrGen(InjMaster) \/ WrUnlock(InjMaster)
  \/ InjectAR \/ InjectAW \/ InjectW
  \/ DrainAR \/ DrainAW \/ DrainW

SpecInj == Init /\ [][NextInj]_vars

\* the write beats of a sequence of requests, transaction after transaction
RECURSIVE BeatsOf(_)
BeatsOf(reqs) ==
  IF reqs = << >> THEN << >>
  ELSE WrWalk(Head(reqs), WR_M_LANES, WR_S_LANES, InjMaster).m_beats \o BeatsOf(Tail(reqs))

\* what has left on each port followed by what still waits is the generated
\* sequence, in generation order; the W beats are those of the AW requests,
\* transaction after transaction
InjOrder ==
  LET ar == inj.ar_pushed \o stored_rd_trans[InjMaster]
      aw == inj.aw_pushed \o stored_wr_trans[InjMaster]
      w  == inj.w_pushed \o stored_wr_data[InjMaster]
  IN /\ \A i \in DOMAIN ar : TxOfAddr(ar[i].addr, RD_M_LANES) = i
     /\ \A i \in DOMAIN aw : TxOfAddr(aw[i].addr, WR_M_LANES) = i
     /\ pc[InjMaster] = "idle" => w = BeatsOf(aw)
     /\ Len(inj.ar_pushed) = inj.rd_trans_inj
     /\ Len(inj.aw_pushed) = inj.wr_trans_inj
     /\ Len(inj.w_pushed) = inj.wr_data_inj
     /\ inj.retry.ar # << >> =>
          stored_rd_trans[InjMaster] # << >> /\ Head(stored_rd_trans[InjMaster]) = inj.retry.ar[1]
     /\ inj.retry.aw # << >> =>
          stored_wr_trans[InjMaster] # << >> /\ Head(stored_wr_trans[InjMaster]) = inj.retry.aw[1]
     /\ inj.retry.w # << >> =>
          stored_wr_data[InjMaster] # << >> /\ Head(stored_wr_data[InjMaster]) = inj.retry.w[1]

\* one port in one step: a push that failed changes neither the queue nor
\* the counter nor the channel; a push that succeeded takes exactly the
\* front element; nothing else shortens the queue or moves the counter
PortStep(q, q1, chan, chan1, n, n1, failed) ==
  /\ failed => q1 = q /\ n1 = n /\ chan1 = chan /\ Len(chan) >= ChanCap
  /\ n1 # n =>
       /\ q # << >>
       /\ q1 = Tail(q)
       /\ n1 = n + 1
       /\ chan1 = Append(chan, Head(q))
  /\ n1 = n => Len(q1) >= Len(q) /\ SubSeq(q1, 1, Len(q)) = q

\* C17: a failed non-blocking push leaves the injection queue and the
\* injected counter as they were and the same front element is offered
\* again; a successful push removes exactly the front element; so each port
\* sends the generated payloads in generation order, none lost, duplicated
\* or reordered, and the W beats leave in the order of their AW requests.
C17_Injection ==
  /\ []InjOrder
  /\ [][ /\ PortStep(stored_rd_trans[InjMaster], stored_rd_trans'[InjMaster], ar_out, ar_out',
                     inj.rd_trans_inj, inj'.rd_trans_inj,
                     inj'.retry.ar # << >> /\ inj'.retry.ar # inj.retry.ar)
         /\ PortStep(stored_wr_trans[InjMaster], stored_wr_trans'[InjMaster], aw_out, aw_out',
                     inj.wr_trans_inj, inj'.wr_trans_inj,
                     inj'.retry.aw # << >> /\ inj'.retry.aw # inj.retry.aw)
         /\ PortStep(stored_wr_data[InjMaster], stored_wr_data'[InjMaster], w_out, w_out',
                     inj.wr_data_inj, inj'.wr_data_inj,
                     inj'.retry.w # << >> /\ inj'.retry.w # inj.retry.w)
       ]_vars

\* the first write request has left on AW with some of its beats on W, and
\* the push of the second one failed on the full channel: it waits at the
\* front of its queue
C17_Witness ==
  /\ inj.wr_trans_inj = 1
  /\ aw_out = inj.aw_pushed
  /\ stored_wr_trans[InjMaster] # << >>
  /\ inj.retry.aw = <<Head(stored_wr_trans[InjMaster])>>
  /\ inj.wr_data_inj >= 1

(***************************************************************************)
(* SpecLive: SpecInj with the stop_gen input and with the scheduling of    *)
(* do_cycle: every tick runs the three injection attempts, a generator     *)
(* call runs to its end, and the interconnect goes on taking messages off  *)
(* AR, AW and W.  stop_gen changes between two activations of the thread   *)
(* and, once asserted, stays asserted.                                     *)
(***************************************************************************)
GenAllowedAlways == TRUE

\* line 169: if (!stop_gen.read())
GenAllowed == ~stop_gen

StopGen ==
  /\ ~stop_gen /\ pc[InjMaster] = "idle"
  /\ stop_gen' = TRUE
  /\ UNCHANGED <<sbVars, pred, slaveVars, map_call, pay, mst, ar_out, aw_out,
                 w_out, inj, vfy, blk>>

LiveGenRd == GenAllowed /\ GenRdDraw(InjMaster)
LiveGenWr == GenAllowed /\ WrLock(InjMaster)

NextLive ==
  \/ LiveGenRd \/ RdLock1(InjMaster) \/ RdPushReq(InjMaster)
  \/ RdUnlock1(InjMaster) \/ RdPushOrder(InjMaster) \/ RdLock2(InjMaster)
  \/ RdPushBeats(InjMaster) \/ RdUnlock2(InjMaster)
  \/ LiveGenWr \/ WrGen(InjMaster) \/ WrUnlock(InjMaster)
  \/ InjectAR \/ InjectAW \/ InjectW
  \/ DrainAR \/ DrainAW \/ DrainW
  \/ StopGen

SpecLive ==
  /\ Init /\ [][NextLive]_vars
  /\ Fairness(InjMaster)
  /\ WF_vars(InjectAR) /\ WF_vars(InjectAW) /\ WF_vars(InjectW)
  /\ WF_vars(DrainAR) /\ WF_vars(DrainAW) /\ WF_vars(DrainW)

(***************************************************************************)
(* Properties of the injection under its scheduling (SpecLive)             *)
(***************************************************************************)
QueuesEmpty ==
  /\ stored_rd_trans[InjMaster] = << >>
  /\ stored_wr_trans[InjMaster] = << >>
  /\ stored_wr_data[InjMaster] = << >>

\* an element waits at the front of a port's queue while the port's injected
\* counter has parity b: the counter moves by one with every push, so its
\* parity changes exactly when the waiting element is pushed
Waits(q, sent, b) == q # << >> /\ sent % 2 = b
Pushed(sent, b) == sent % 2 # b

\* C30: with the channels taking messages again and again, the element at
\* the front of each injection queue is eventually pushed, so every queued
\* transaction and beat is; while stop_gen is asserted no step generates a
\* transaction, and from then on the three queues eventually are empty.  A
\* run ended by a fatal assertion pushes nothing more.
C30_Drains ==
  /\ \A b \in {0, 1} :
       /\ Waits(stored_rd_trans[InjMaster], inj.rd_trans_inj, b)
            ~> (Pushed(inj.rd_trans_inj, b) \/ halted)
       /\ Waits(stored_wr_trans[InjMaster], inj.wr_trans_inj, b)
            ~> (Pushed(inj.wr_trans_inj, b) \/ halted)
       /\ Waits(stored_wr_data[InjMaster], inj.wr_data_inj, b)
            ~> (Pushed(inj.wr_data_inj, b) \/ halted)
  /\ [][ stop_gen =>
           /\ stop_gen'
           /\ gen_left' = gen_left
           /\ cnt'[InjMaster].gen_rd_addr = cnt[InjMaster].gen_rd_addr
           /\ cnt'[InjMaster].gen_wr_addr = cnt[InjMaster].gen_wr_addr
           /\ Len(stored_rd_trans'[InjMaster]) <= Len(stored_rd_trans[InjMaster])
           /\ Len(stored_wr_trans'[InjMaster]) <= Len(stored_wr_trans[InjMaster])
           /\ Len(stored_wr_data'[InjMaster]) <= Len(stored_wr_data[InjMaster])
       ]_vars
  /\ stop_gen ~> (QueuesEmpty \/ halted)

\* stop_gen was asserted after one write, with the master allowed one more
\* transaction; the request and its two or more beats have all been pushed
C30_Witness ==
  /\ stop_gen /\ gen_left = MaxGen - 1
  /\ QueuesEmpty /\ ~halted
  /\ inj.wr_trans_inj = 1 /\ inj.wr_data_inj >= 2
  /\ cnt[InjMaster].wr_trans_generated = 1

(***************************************************************************)
(* SpecCount: SpecInj with verify_rd_resp of the same master, so that all  *)
(* the counters of one master move.                                        *)
(***************************************************************************)
NextCount ==
  \/ GenRdDraw(InjMaster) \/ RdLock1(InjMaster) \/ RdPushReq(InjMaster)
  \/ RdUnlock1(InjMaster) \/ RdPushOrder(InjMaster) \/ RdLock2(InjMaster)
  \/ RdPushBeats(InjMaster) \/ RdUnlock2(InjMaster)
  \/ WrLock(InjMaster) \/ WrGen(InjMaster) \/ WrUnlock(InjMaster)
  \/ InjectAR \/ InjectAW \/ InjectW
  \/ DrainAR \/ DrainAW \/ DrainW
  \/ VrLock(InjMaster) \/ VrBody(InjMaster) \/ VrUnlock(InjMaster)

SpecCount == Init /\ [][NextCount]_vars

(***************************************************************************)
(* Properties of the counters (SpecCount)                                  *)
(***************************************************************************)
\* generated minus injected, for the three injection queues of the master
RdWaiting == cnt[InjMaster].rd_trans_generated - inj.rd_trans_inj
WrWaiting == cnt[InjMaster].wr_trans_generated - inj.wr_trans_inj
DataWaiting == cnt[InjMaster].wr_data_generated - inj.wr_data_inj

\* what holds in every state: the beats are counted where they are pushed,
\* the accepted read beats are among the predicted ones
CountersBounded ==
  /\ 0 <= inj.rd_trans_inj /\ inj.rd_trans_inj <= cnt[InjMaster].rd_trans_generated
  /\ 0 <= inj.wr_trans_inj /\ inj.wr_trans_inj <= cnt[InjMaster].wr_trans_generated
  /\ 0 <= inj.wr_data_inj /\ inj.wr_data_inj <= cnt[InjMaster].wr_data_generated
  /\ Len(stored_wr_data[InjMaster]) = DataWaiting
  /\ cnt[InjMaster].rd_resp_ej <= cnt[InjMaster].rd_data_generated

\* C31 as stated: in every state the queue lengths are generated - injected
C31_Original ==
  /\ CountersBounded
  /\ Len(stored_rd_trans[InjMaster]) = RdWaiting
  /\ Len(stored_wr_trans[InjMaster]) = WrWaiting

\* C31: the injected counters are between 0 and the generated ones, the
\* data queue holds generated - injected beats and rd_resp_ej is at most
\* rd_data_generated in every state; the two request queues hold generated -
\* injected requests whenever the master is at its tick boundary, and one
\* more inside a generator call between the push (line 247 / 336) and the
\* count (line 271 / 419).
C31_CountersAgree ==
  /\ CountersBounded
  /\ AtTick(InjMaster) =>
       /\ Len(stored_rd_trans[InjMaster]) = RdWaiting
       /\ Len(stored_wr_trans[InjMaster]) = WrWaiting
  /\ pc[InjMaster] \in {"rd_lock1", "rd_req", "rd_unlock1", "rd_order"} =>
       /\ Len(stored_rd_trans[InjMaster]) = RdWaiting + 1
       /\ Len(stored_wr_trans[InjMaster]) = WrWaiting
  /\ pc[InjMaster] = "wr_unlock" =>
       /\ Len(stored_wr_trans[InjMaster]) = WrWaiting + 1
       /\ Len(stored_rd_trans[InjMaster]) = RdWaiting
  /\ Len(stored_rd_trans[InjMaster]) - RdWaiting \in {0, 1}
  /\ Len(stored_wr_trans[InjMaster]) - WrWaiting \in {0, 1}

\* at its tick the master has generated a read and a write; the read request
\* has been pushed and one of its beats accepted, the write request waits
\* with all but one of its beats
C31_Witness ==
  /\ AtTick(InjMaster) /\ ~halted
  /\ cnt[InjMaster].rd_trans_generated = 1 /\ inj.rd_trans_inj = 1
  /\ cnt[InjMaster].rd_resp_ej = 1
  /\ cnt[InjMaster].wr_trans_generated = 1 /\ inj.wr_trans_inj = 0
  /\ Len(stored_wr_trans[InjMaster]) = 1
  /\ inj.wr_data_inj = 1 /\ stored_wr_data[InjMaster] # << >>

(***************************************************************************)
(* SpecWalk: the byte walks of gen_new_rd_trans and gen_new_wr_trans as    *)
(* functions of the request, over every size up to the master width        *)
(* (size 0 included), every burst type, every len below AXI4_MAX_LEN and   *)
(* aligned and unaligned addresses.                                        *)
(***************************************************************************)
WalkInputs ==
  { [phase |-> "req", M |-> c[1], S |-> c[2], MASTER_ID |-> mid,
     req |-> [id |-> 0, size |-> size, burst |-> burst, len |-> len, addr |-> addr]] :
       c \in LaneCfgs, mid \in PredMasterIds,
       size \in 0..3, burst \in {FIXED, INCR, WRAP},
       len \in 0..(AXI4_MAX_LEN - 1), addr \in 0..MaxWalkAddr }

\* lines 282-311 on the drawn request
WalkRd ==
  /\ pred.phase = "req"
  /\ pred' = [phase |-> "rd", M |-> pred.M, S |-> pred.S, MASTER_ID |-> pred.MASTER_ID,
              req   |-> pred.req,
              s_req |-> RdSlaveReq(pred.req, pred.S),
              walk  |-> RdWalk(pred.req, pred.M, mem_map_resolve(pred.req.addr))]
  /\ UNCHANGED <<sbVars, slaveVars, portVars>>

\* lines 345-415 on the drawn request
WalkWr ==
  /\ pred.phase = "req"
  /\ pred' = [phase |-> "wr", M |-> pred.M, S |-> pred.S, MASTER_ID |-> pred.MASTER_ID,
              req   |-> pred.req,
              s_req |-> WrSlaveReq(pred.req, pred.S),
              walk  |-> WrWalk(pred.req, pred.M, pred.S, pred.MASTER_ID)]
  /\ UNCHANGED <<sbVars, slaveVars, portVars>>

NextWalk == WalkRd \/ WalkWr

InitWalk ==
  /\ InitSb
  /\ gen_left = 0
  /\ pred \in { p \in WalkInputs : Pow2(p.req.size) <= p.M }
  /\ InitSlave
  /\ InitMap /\ InitPay /\ InitMst /\ InitInj /\ InitVfy /\ InitBlk /\ InitStop

SpecWalk == InitWalk /\ [][NextWalk]_vars

\* every value a lane pointer took: the lanes written, beat after beat, the
\* lanes of a beat left open, and the pointer after the last byte
RECURSIVE LanesOf(_)
LanesOf(lanes) ==
  IF lanes = << >> THEN {}
  ELSE { Head(lanes)[j] : j \in DOMAIN Head(lanes) } \cup LanesOf(Tail(lanes))

InWindow(ptrs, init_ptr, size) ==
  \A ptr \in ptrs : init_ptr <= ptr /\ ptr < init_ptr + Pow2(size)

\* the scenario: a FIXED read of len 3, size 0 on 4 master lanes
FixedScenario ==
  /\ pred.phase = "rd"
  /\ pred.M = 4
  /\ pred.req.burst = FIXED /\ pred.req.len = 3 /\ pred.req.size = 0

\* C22: in a FIXED burst every value of the lane pointer lies in the window
\* of 2^size lanes that starts at the initial lane addr mod lanes; in the
\* scenario (len 3, size 0, 4 master lanes) the predictor produces 4 beats,
\* each with one byte at lane addr mod 4, of value 0, 1, 2, 3 in this
\* order, last set on the fourth only.
C22_FixedWindow ==
  /\ (pred.phase = "rd" /\ pred.req.burst = FIXED) =>
       InWindow(LanesOf(pred.walk.lanes) \cup LanesOf(<<pred.walk.wrote>>)
                  \cup {pred.walk.m_ptr},
                pred.req.addr % pred.M, pred.req.size)
  /\ (pred.phase = "wr" /\ pred.req.burst = FIXED) =>
       /\ InWindow(LanesOf(pred.walk.m_lanes) \cup LanesOf(<<pred.walk.m_wrote>>)
                     \cup {pred.walk.m_ptr},
                   pred.req.addr % pred.M, pred.req.size)
       /\ InWindow(LanesOf(pred.walk.s_lanes) \cup LanesOf(<<pred.walk.s_wrote>>)
                     \cup {pred.walk.s_ptr},
                   pred.req.addr % pred.S, pred.s_req.size)
  /\ FixedScenario =>
       LET lane == pred.req.addr % 4
       IN /\ Len(pred.walk.beats) = 4
          /\ pred.walk.lanes = [i \in 1..4 |-> <<lane>>]
          /\ \A i \in 1..4 :
               /\ pred.walk.beats[i].data = [ZeroData EXCEPT ![lane + 1] = i - 1]
               /\ pred.walk.beats[i].last = (i = 4)

\* the scenario at an address whose initial lane is 1
C22_Witness ==
  /\ FixedScenario
  /\ pred.req.addr % 4 = 1
  /\ pred.walk.beats[4].data[2] = 3
  /\ pred.walk.beats[4].last

(***************************************************************************)
(* SpecDelay: verify_rd_resp and verify_wr_resp of one master with the     *)
(* clock.  vfy.now is sc_time_stamp() / clk_period; every prediction       *)
(* carries time_gen, the cycle it was pushed in.  The interconnect hands   *)
(* the master the response of any waiting prediction pushed in an earlier  *)
(* cycle, or the oldest one with another slave's index in resp.            *)
(***************************************************************************)
VfyInit ==
  [phase |-> "run", now |-> 0, gen |-> 0, gen_rd_addr |-> 0, gen_wr_addr |-> 0,
   sb_rd_resp_q |-> << >>, sb_wr_resp_q |-> << >>,
   sb_rd_order_q |-> << >>, sb_wr_order_q |-> << >>,
   wr_at_slave |-> << >>,
   rd_resp_delay |-> 0, rd_resp_count |-> 0, rd_resp_data_count |-> 0,
   wr_resp_delay |-> 0, wr_resp_count |-> 0,
   rd_resp_ej |-> 0, wr_resp_ej |-> 0,
   error_sb_rd_resp_not_found |-> 0, error_sb_wr_resp_not_found |-> 0,
   halted |-> FALSE,
   call |-> [op |-> "none", n |-> 0]]

\* msg_tb_wrap with its time_gen
Stamp(msg, now) == [dut_msg |-> msg, time_gen |-> now]

RECURSIVE StampAll(_, _)
StampAll(msgs, now) ==
  IF msgs = << >> THEN << >>
  ELSE <<Stamp(Head(msgs), now)>> \o StampAll(Tail(msgs), now)

DelayAfterNoMinus(delay, now, time_gen) == delay + (now - time_gen)

\* delay += ((sc_time_stamp() - time_gen) / clk_period) - 1
DelayAfter(delay, now, time_gen) == delay + ((now - time_gen) - 1)

\* wait(): the next clock edge
DlyTick ==
  /\ vfy.phase = "run" /\ ~vfy.halted /\ vfy.now < MaxCycles
  /\ vfy' = [vfy EXCEPT !.now = @ + 1]
  /\ UNCHANGED <<sbVars, pred, slaveVars, map_call, pay, mst, ar_out, aw_out, w_out, inj, blk, stop_gen>>

\* gen_new_rd_trans: the order entry and the expected beats, stamped
DlyGenRd ==
  /\ vfy.phase = "run" /\ ~vfy.halted /\ vfy.gen < MaxGen
  /\ \E rid \in RandVals, rburst \in RandVals, rlen \in RandVals, rsel \in RandVals :
       LET req == GenReq(RD_M_LANES, RD_S_LANES, vfy.gen_rd_addr,
                         rid, 0, rburst, rlen, rsel, 0, 0)
           walk == RdWalk(req, RD_M_LANES, mem_map_resolve(req.addr))
       IN vfy' = [vfy EXCEPT !.gen = @ + 1,
                             !.gen_rd_addr = @ + RD_M_LANES,
                             !.sb_rd_order_q = Append(@, req),
                             !.sb_rd_resp_q = @ \o StampAll(walk.beats, vfy.now)]
  /\ UNCHANGED <<sbVars, pred, slaveVars, map_call, pay, mst, ar_out, aw_out, w_out, inj, blk, stop_gen>>

\* gen_new_wr_trans: the order entry; the request is on its way to a slave
DlyGenWr ==
  /\ vfy.phase = "run" /\ ~vfy.halted /\ vfy.gen < MaxGen
  /\ \E rid \in RandVals, rburst \in RandVals, rlen \in RandVals, rsel \in RandVals :
       LET req == GenReq(WR_M_LANES, WR_S_LANES, vfy.gen_wr_addr,
                         rid, 0, rburst, rlen, rsel, 0, 0)
       IN vfy' = [vfy EXCEPT !.gen = @ + 1,
                             !.gen_wr_addr = @ + WR_M_LANES,
                             !.sb_wr_order_q = Append(@, req),
                             !.wr_at_slave = Append(@, req)]
  /\ UNCHANGED <<sbVars, pred, slaveVars, map_call, pay, mst, ar_out, aw_out, w_out, inj, blk, stop_gen>>

\* the slave side predicts the B response of the oldest write it holds
DlySlaveWr ==
  /\ vfy.phase = "run" /\ ~vfy.halted /\ vfy.wr_at_slave # << >>
  /\ LET req == Head(vfy.wr_at_slave)
     IN vfy' = [vfy EXCEPT
          !.wr_at_slave = Tail(@),
          !.sb_wr_resp_q = Append(@, Stamp([id |-> req.id,
                                            resp |-> mem_map_resolve(req.addr)],
                                           vfy.now))]
  /\ UNCHANGED <<sbVars, pred, slaveVars, map_call, pay, mst, ar_out, aw_out, w_out, inj, blk, stop_gen>>

\* what r_in / b_in can hold in this cycle
DlyOffers(q) ==
  { e.dut_msg : e \in { x \in SeqRange(q) : x.time_gen < vfy.now } }
    \cup (IF q # << >> /\ Head(q).time_gen < vfy.now
            THEN { [Head(q).dut_msg EXCEPT !.resp = OtherResp(@)] } ELSE {})

\* r_in.PopNB and verify_rd_resp, lines 426-492
DlyVerifyRd ==
  /\ vfy.phase = "run" /\ ~vfy.halted
  /\ \E rcv \in DlyOffers(vfy.sb_rd_resp_q) :
       LET ord_q   == vfy.sb_rd_order_q
           j_ord   == ScanOrder(ord_q, rcv.id, 0)
           reorder == ReorderOf(ord_q, j_ord, rcv.resp)
           ord_q1  == RdOrderAfter(ord_q, j_ord, rcv.last)
           rsp_q   == vfy.sb_rd_resp_q
           j_rsp   == ScanRdResp(rsp_q, rcv, 0)
           found   == j_rsp < Len(rsp_q)
           sb_resp == rsp_q[j_rsp + 1]
           rsp_q1  == IF found THEN Erase(rsp_q, j_rsp) ELSE rsp_q
           outcome == OutcomeOf(found, reorder)
       IN \E exit \in ExitsOf(outcome, rsp_q1, ord_q1) :
            vfy' = [vfy EXCEPT
              !.sb_rd_order_q = ord_q1,
              !.sb_rd_resp_q = rsp_q1,
              !.rd_resp_delay =
                 IF found /\ sb_resp.dut_msg.last
                   THEN DelayAfter(@, vfy.now, sb_resp.time_gen) ELSE @,
              !.rd_resp_count = IF found /\ sb_resp.dut_msg.last THEN @ + 1 ELSE @,
              !.rd_resp_data_count = IF found THEN @ + 1 ELSE @,
              !.error_sb_rd_resp_not_found =
                 IF outcome = "not_found" /\ exit = "assert" THEN @ + 1 ELSE @,
              !.rd_resp_ej = IF outcome = "ok" THEN @ + 1 ELSE @,
              !.halted = (outcome # "ok"),
              !.call = [op |-> "rd", n |-> vfy.call.n + 1, rcv |-> rcv,
                        outcome |-> outcome, exit |-> exit]]
  /\ UNCHANGED <<sbVars, pred, slaveVars, map_call, pay, mst, ar_out, aw_out, w_out, inj, blk, stop_gen>>

\* b_in.PopNB and verify_wr_resp, lines 495-557
DlyVerifyWr ==
  /\ vfy.phase = "run" /\ ~vfy.halted
  /\ \E rcv \in DlyOffers(vfy.sb_wr_resp_q) :
       LET ord_q   == vfy.sb_wr_order_q
           j_ord   == ScanOrder(ord_q, rcv.id, 0)
           reorder == ReorderOf(ord_q, j_ord, rcv.resp)
           ord_q1  == WrOrderAfter(ord_q, j_ord)
           rsp_q   == vfy.sb_wr_resp_q
           j_rsp   == ScanWrResp(rsp_q, rcv, 0)
           found   == j_rsp < Len(rsp_q)
           sb_resp == rsp_q[j_rsp + 1]
           rsp_q1  == IF found THEN Erase(rsp_q, j_rsp) ELSE rsp_q
           outcome == OutcomeOf(found, reorder)
       IN \E exit \in ExitsOf(outcome, rsp_q1, ord_q1) :
            vfy' = [vfy EXCEPT
              !.sb_wr_order_q = ord_q1,
              !.sb_wr_resp_q = rsp_q1,
              !.wr_resp_delay =
                 IF found THEN DelayAfter(@, vfy.now, sb_resp.time_gen) ELSE @,
              !.wr_resp_count = IF found THEN @ + 1 ELSE @,
              !.error_sb_wr_resp_not_found =
                 IF outcome = "not_found" /\ exit = "assert" THEN @ + 1 ELSE @,
              !.wr_resp_ej = IF outcome = "ok" THEN @ + 1 ELSE @,
              !.halted = (outcome # "ok"),
              !.call = [op |-> "wr", n |-> vfy.call.n + 1, rcv |-> rcv,
                        outcome |-> outcome, exit |-> exit]]
  /\ UNCHANGED <<sbVars, pred, slaveVars, map_call, pay, mst, ar_out, aw_out, w_out, inj, blk, stop_gen>>

NextDelay ==
  \/ DlyTick \/ DlyGenRd \/ DlyGenWr \/ DlySlaveWr \/ DlyVerifyRd \/ DlyVerifyWr

InitDelay ==
  /\ InitSb
  /\ gen_left = 0
  /\ pred = PredIdle
  /\ InitSlave
  /\ InitMap /\ InitPay /\ InitMst /\ InitInj /\ InitBlk /\ InitStop
  /\ vfy = VfyInit

SpecDelay == InitDelay /\ [][NextDelay]_vars

\* the steps that are a call of verify_rd_resp / verify_wr_resp
DlyRdCall == vfy'.call.op = "rd" /\ vfy'.call.n = vfy.call.n + 1
DlyWrCall == vfy'.call.op = "wr" /\ vfy'.call.n = vfy.call.n + 1

\* the oldest prediction equal to the response (1-based), 0 if none
MatchedRd(q, rcv) ==
  IF \E j \in DOMAIN q : eq_rd_data(rcv, q[j].dut_msg)
    THEN CHOOSE j \in DOMAIN q :
           /\ eq_rd_data(rcv, q[j].dut_msg)
           /\ \A i \in 1..(j - 1) : ~eq_rd_data(rcv, q[i].dut_msg)
    ELSE 0

MatchedWr(q, rcv) ==
  IF \E j \in DOMAIN q : eq_wr_resp(q[j].dut_msg, rcv)
    THEN CHOOSE j \in DOMAIN q :
           /\ eq_wr_resp(q[j].dut_msg, rcv)
           /\ \A i \in 1..(j - 1) : ~eq_wr_resp(q[i].dut_msg, rcv)
    ELSE 0

\* C25 as stated: on every content match in verify_rd_resp and
\* verify_wr_resp the running delay grows by the cycles elapsed since the
\* matched prediction was generated minus one, and the response count by one.
C25_Original ==
  [][ /\ DlyRdCall =>
           LET j == MatchedRd(vfy.sb_rd_resp_q, vfy'.call.rcv)
           IN j > 0 =>
                /\ vfy'.rd_resp_delay = vfy.rd_resp_delay
                     + (vfy.now - vfy.sb_rd_resp_q[j].time_gen) - 1
                /\ vfy'.rd_resp_count = vfy.rd_resp_count + 1
      /\ DlyWrCall =>
           LET j == MatchedWr(vfy.sb_wr_resp_q, vfy'.call.rcv)
           IN j > 0 =>
                /\ vfy'.wr_resp_delay = vfy.wr_resp_delay
                     + (vfy.now - vfy.sb_wr_resp_q[j].time_gen) - 1
                /\ vfy'.wr_resp_count = vfy.wr_resp_count + 1
    ]_vars

\* C25 (amended): verify_rd_resp adds the elapsed cycles minus one to
\* rd_resp_delay and one to rd_resp_count on a content match whose matched
\* prediction carries last, and leaves both as they were on a match with a
\* beat that is not the last; verify_wr_resp adds them on every content
\* match.  Without a match, and in every other step, they do not change.
C25_DelayAccounting ==
  [][ /\ DlyRdCall =>
           LET j == MatchedRd(vfy.sb_rd_resp_q, vfy'.call.rcv)
               terminal == j > 0 /\ vfy.sb_rd_resp_q[j].dut_msg.last
           IN /\ terminal =>
                   /\ vfy'.rd_resp_delay = vfy.rd_resp_delay
                        + (vfy.now - vfy.sb_rd_resp_q[j].time_gen) - 1
                   /\ vfy'.rd_resp_count = vfy.rd_resp_count + 1
              /\ ~terminal =>
                   /\ vfy'.rd_resp_delay = vfy.rd_resp_delay
                   /\ vfy'.rd_resp_count = vfy.rd_resp_count
              /\ vfy'.rd_resp_data_count =
                   vfy.rd_resp_data_count + (IF j > 0 THEN 1 ELSE 0)
      /\ DlyWrCall =>
           LET j == MatchedWr(vfy.sb_wr_resp_q, vfy'.call.rcv)
           IN /\ j > 0 =>
                   /\ vfy'.wr_resp_delay = vfy.wr_resp_delay
                        + (vfy.now - vfy.sb_wr_resp_q[j].time_gen) - 1
                   /\ vfy'.wr_resp_count = vfy.wr_resp_count + 1
              /\ j = 0 =>
                   /\ vfy'.wr_resp_delay = vfy.wr_resp_delay
                   /\ vfy'.wr_resp_count = vfy.wr_resp_count
      /\ ~DlyRdCall =>
           /\ vfy'.rd_resp_delay = vfy.rd_resp_delay
           /\ vfy'.rd_resp_count = vfy.rd_resp_count
      /\ ~DlyWrCall =>
           /\ vfy'.wr_resp_delay = vfy.wr_resp_delay
           /\ vfy'.wr_resp_count = vfy.wr_resp_count
    ]_vars

\* both beats of a two-beat read were matched, the first one without a
\* change of delay and count, the last one three cycles after generation
C25_Witness ==
  /\ vfy.phase = "run"
  /\ vfy.rd_resp_data_count = 2
  /\ vfy.rd_resp_count = 1
  /\ vfy.rd_resp_delay = 2
  /\ vfy.rd_resp_ej = 2

====
